---- MODULE Spec2Model ----
(***************************************************************************)
(* ChessEngineCore (src/unnamed/part_000, lines 678-1287): the rule engine *)
(* of the chess application, as a state machine.  The board is an 8x8 grid *)
(* of pieces, row 0 is Black's back rank and row 7 White's; White moves    *)
(* towards row 0.  Every operator below takes the board (and, where the    *)
(* code reads them, the turn and the last move) as parameters, because the *)
(* code evaluates them on the live board and on speculative boards alike.  *)
(***************************************************************************)
EXTENDS Integers, Sequences, FiniteSets, TLC

VARIABLES
    board,          \* this.board
    turn,           \* this.turn
    moveHistory,    \* this.moveHistory
    capturedPieces, \* this.capturedPieces
    check,          \* this.check
    gameOver,       \* this.gameOver
    lastMove,       \* this.lastMove
    promotingPawn,  \* this.promotingPawn
    result,         \* what the last call returned
    played,         \* history variable: the plies in effect, newest last
    remaining,      \* calls the caller may still make
    difficulty,     \* ChessEngineSystem: this.difficulty
    sabotaged,      \* ChessEngineSystem: this.sabotaged
    sabotageMoves,  \* ChessEngineSystem: this.sabotageMoves
    chosen,         \* what the last chooseMove call returned
    trace,          \* history variable: the path the last chooseMove call took
    sabotageArg,    \* history variable: the argument of the last sabotage call
    bypassLog,      \* history variable: per chooseMove call since the last
                    \* sabotage call, whether it bypassed the search
    currentPlayer,  \* app/chess-engine.js ChessEngine: this.currentPlayer
    winner,         \* app/chess-engine.js ChessEngine: this.winner
    enPassantTarget,\* app/chess-engine.js ChessEngine: this.enPassantTarget
    castlingRights, \* app/chess-engine.js ChessEngine: this.castlingRights
    selectedSquare, \* part_005 ChessEngine: this.selectedSquare
    possibleMoves,  \* part_005 ChessEngine: this.possibleMoves
    vsComputer,     \* ChessGame: this.vsComputer
    computerSide,   \* ChessGame: this.computerSide
    thinking,       \* the makeAIMove calls suspended at their await, each
                    \* with the move its chooseMove will resolve to
    undoTimers,     \* the setTimeout callbacks ChessGame.undoMove has pending
    applied,        \* history variable: what the last resumed makeAIMove
                    \* found and did
    request,        \* the call being served: the message a worker received
                    \* or the arguments of the call
    reply,          \* what the call returned or the worker posted
    transpositionTable, \* AdvancedHintEngine: this.transpositionTable
    isThinking,     \* ExtendedChessAIIntegration: this.isThinking
    now,            \* the clock of the page, in milliseconds
    timers,         \* the setTimeout callbacks the page has pending
    frames          \* the makeAIMove calls of the integration in progress,
                    \* each with its position in the code and its locals

engineVars == <<board, turn, moveHistory, capturedPieces, check, gameOver,
                lastMove, promotingPawn>>

aiVars == <<difficulty, sabotaged, sabotageMoves, chosen, trace, sabotageArg,
            bypassLog>>

\* the fields of the bot-vs-bot ChessEngine that have no namesake above; its
\* board, moveHistory and gameOver are held in the variables of those names
botVars == <<currentPlayer, winner, enPassantTarget, castlingRights>>

\* ChessGame and the selection fields of its engine (part_005), whose other
\* fields are held in the variables named like them
gameVars == <<selectedSquare, possibleMoves, vsComputer, computerSide, thinking,
              undoTimers, applied>>

\* what the hint workers are asked and answer, and the table one of them keeps
searchVars == <<request, reply, transpositionTable>>

\* ExtendedChessAIIntegration and the timers of its page; its moveHistory is
\* held in the variable of that name
integrationVars == <<isThinking, now, timers, frames>>

vars == <<board, turn, moveHistory, capturedPieces, check, gameOver,
          lastMove, promotingPawn, result, played, remaining,
          difficulty, sabotaged, sabotageMoves, chosen, trace, sabotageArg,
          bypassLog, currentPlayer, winner, enPassantTarget, castlingRights,
          selectedSquare, possibleMoves, vsComputer, computerSide, thinking,
          undoTimers, applied, request, reply, transpositionTable,
          isThinking, now, timers, frames>>

-----------------------------------------------------------------------------
(* Bounds of the exploration *)

\* config.maxMoveHistory of the engine under test
maxMoveHistory == 2

\* calls made on an engine that starts from a mid-game position
MaxCalls == 3

\* calls made on an opponent that searches one ply deep or not at all
AICalls == 3

\* calls made on an opponent that searches deeper
DeepCalls == 1

\* the largest argument sabotage is called with
MaxSabotage == 2

\* the most loop tests of getBestMoveWithTime the clock lets pass
MaxTicks == 7

\* calls made on a freshly constructed engine
StartCalls == 2

-----------------------------------------------------------------------------
(* Data *)

Rows == 0..7

Squares == Rows \X Rows

\* null in a board cell, in moveData.captured
NoPiece == [type |-> "none", color |-> "none", hasMoved |-> FALSE]

P(t, c, m) == [type |-> t, color |-> c, hasMoved |-> m]

\* null in promotingPawn
NoSquare == <<>>

\* null in lastMove
NoMove == [from |-> <<>>, to |-> <<>>, piece |-> NoPiece, captured |-> NoPiece,
           boardState |-> <<>>]

Abs(x) == IF x < 0 THEN -x ELSE x

Sign(x) == IF x < 0 THEN -1 ELSE IF x > 0 THEN 1 ELSE 0

Max(x, y) == IF x > y THEN x ELSE y

Other(color) == IF color = "white" THEN "black" ELSE "white"

isInBounds(r, c) == r >= 0 /\ r < 8 /\ c >= 0 /\ c < 8

Occupied(b, r, c) == b[r][c].type # "none"

BackRankTypes == <<"rook", "knight", "bishop", "queen", "king", "bishop", "knight", "rook">>

setupBoard ==
    [r \in Rows |-> [c \in Rows |->
        CASE r = 0 -> P(BackRankTypes[c + 1], "black", FALSE)
          [] r = 1 -> P("pawn", "black", FALSE)
          [] r = 6 -> P("pawn", "white", FALSE)
          [] r = 7 -> P(BackRankTypes[c + 1], "white", FALSE)
          [] OTHER -> NoPiece]]

-----------------------------------------------------------------------------
(* Attack detection *)

isPathClear(b, fromRow, fromCol, toRow, toCol) ==
    LET dx == Sign(toCol - fromCol)
        dy == Sign(toRow - fromRow)
        n  == Max(Abs(toCol - fromCol), Abs(toRow - fromRow))
    IN  \A k \in 1..(n - 1) : ~Occupied(b, fromRow + k * dy, fromCol + k * dx)

canAttackSquare(b, fromRow, fromCol, toRow, toCol) ==
    LET piece == b[fromRow][fromCol]
        dx == toCol - fromCol
        dy == toRow - fromRow
    IN  CASE piece.type = "pawn" ->
                dy = (IF piece.color = "white" THEN -1 ELSE 1) /\ Abs(dx) = 1
          [] piece.type = "rook" ->
                (dx = 0 \/ dy = 0) /\ isPathClear(b, fromRow, fromCol, toRow, toCol)
          [] piece.type = "bishop" ->
                Abs(dx) = Abs(dy) /\ isPathClear(b, fromRow, fromCol, toRow, toCol)
          [] piece.type = "queen" ->
                (dx = 0 \/ dy = 0 \/ Abs(dx) = Abs(dy))
                /\ isPathClear(b, fromRow, fromCol, toRow, toCol)
          [] piece.type = "knight" ->
                (Abs(dx) = 2 /\ Abs(dy) = 1) \/ (Abs(dx) = 1 /\ Abs(dy) = 2)
          [] piece.type = "king" ->
                Abs(dx) <= 1 /\ Abs(dy) <= 1 /\ (dx # 0 \/ dy # 0)
          [] OTHER -> FALSE

isSquareAttacked(b, row, col, defendingColor) ==
    \E r \in Rows, c \in Rows :
        /\ b[r][c].color = Other(defendingColor)
        /\ canAttackSquare(b, r, c, row, col)

\* the squares holding a king of the colour
Kings(b, color) ==
    {s \in Squares : b[s[1]][s[2]].type = "king" /\ b[s[1]][s[2]].color = color}

\* the first king in row-major order, or NoSquare
findKing(b, color) ==
    LET ks == Kings(b, color)
    IN  IF ks = {} THEN NoSquare
        ELSE CHOOSE k \in ks : \A j \in ks : k[1] * 8 + k[2] <= j[1] * 8 + j[2]

isKingInCheck(b, color) ==
    LET kingPos == findKing(b, color)
    IN  IF kingPos = NoSquare THEN FALSE
        ELSE isSquareAttacked(b, kingPos[1], kingPos[2], color)

\* the temporary move: only the moving piece is relocated
wouldBeInCheck(b, fromRow, fromCol, toRow, toCol, color) ==
    isKingInCheck([b EXCEPT ![toRow][toCol] = b[fromRow][fromCol],
                            ![fromRow][fromCol] = NoPiece], color)

-----------------------------------------------------------------------------
(* Move generation *)

\* one ray of addDirectionalMoves
addDirectionalMoves(b, row, col, dr, dc, opponentColor) ==
    LET steps == {k \in 1..7 :
                    /\ isInBounds(row + k * dr, col + k * dc)
                    /\ \A j \in 1..(k - 1) : ~Occupied(b, row + j * dr, col + j * dc)
                    /\ \/ ~Occupied(b, row + k * dr, col + k * dc)
                       \/ b[row + k * dr][col + k * dc].color = opponentColor}
    IN  {<<row + k * dr, col + k * dc>> : k \in steps}

RookDirs == {<<-1, 0>>, <<1, 0>>, <<0, -1>>, <<0, 1>>}

BishopDirs == {<<-1, -1>>, <<-1, 1>>, <<1, -1>>, <<1, 1>>}

KnightOffsets == {<<-2, -1>>, <<-2, 1>>, <<-1, -2>>, <<-1, 2>>,
                  <<1, -2>>, <<1, 2>>, <<2, -1>>, <<2, 1>>}

\* mutant: the two-square test of the last move is missing
enPassantOffered_AnyPush(b, lm, row, r, c, opponentColor) ==
    /\ ~Occupied(b, r, c)
    /\ lm # NoMove
    /\ lm.piece.type = "pawn"
    /\ lm.piece.color = opponentColor
    /\ lm.to[1] = row
    /\ lm.to[2] = c

\* the en passant condition of calculatePawnMoves for the target (r, c)
enPassantOffered(b, lm, row, r, c, opponentColor) ==
    /\ ~Occupied(b, r, c)
    /\ lm # NoMove
    /\ lm.piece.type = "pawn"
    /\ lm.piece.color = opponentColor
    /\ Abs(lm.from[1] - lm.to[1]) = 2
    /\ lm.to[1] = row
    /\ lm.to[2] = c

\* mutant: the double step is offered to the pawns that have already moved
calculatePawnMoves_InvertedFlag(b, lm, row, col, color, opponentColor) ==
    LET dir == IF color = "white" THEN -1 ELSE 1
        piece == b[row][col]
        forward ==
            IF isInBounds(row + dir, col) /\ ~Occupied(b, row + dir, col)
            THEN {<<row + dir, col>>}
                 \cup (IF /\ piece.hasMoved
                          /\ isInBounds(row + 2 * dir, col)
                          /\ ~Occupied(b, row + 2 * dir, col)
                       THEN {<<row + 2 * dir, col>>} ELSE {})
            ELSE {}
        diagonal ==
            {<<row + dir, c>> : c \in {c \in {col - 1, col + 1} :
                /\ isInBounds(row + dir, c)
                /\ \/ (Occupied(b, row + dir, c) /\ b[row + dir][c].color = opponentColor)
                   \/ enPassantOffered(b, lm, row, row + dir, c, opponentColor)}}
    IN  forward \cup diagonal

calculatePawnMoves(b, lm, row, col, color, opponentColor) ==
    LET dir == IF color = "white" THEN -1 ELSE 1
        piece == b[row][col]
        forward ==
            IF isInBounds(row + dir, col) /\ ~Occupied(b, row + dir, col)
            THEN {<<row + dir, col>>}
                 \cup (IF /\ ~piece.hasMoved
                          /\ isInBounds(row + 2 * dir, col)
                          /\ ~Occupied(b, row + 2 * dir, col)
                       THEN {<<row + 2 * dir, col>>} ELSE {})
            ELSE {}
        diagonal ==
            {<<row + dir, c>> : c \in {c \in {col - 1, col + 1} :
                /\ isInBounds(row + dir, c)
                /\ \/ (Occupied(b, row + dir, c) /\ b[row + dir][c].color = opponentColor)
                   \/ enPassantOffered(b, lm, row, row + dir, c, opponentColor)}}
    IN  forward \cup diagonal

\* the offsets that stay on the board and do not land on an own piece
offsetMoves(b, row, col, offsets, opponentColor) ==
    {<<row + d[1], col + d[2]>> : d \in {d \in offsets :
        /\ isInBounds(row + d[1], col + d[2])
        /\ \/ ~Occupied(b, row + d[1], col + d[2])
           \/ b[row + d[1]][col + d[2]].color = opponentColor}}

calculateKnightMoves(b, row, col, opponentColor) ==
    offsetMoves(b, row, col, KnightOffsets, opponentColor)

\* mutant: only the square the king lands on is tested for attack
calculateCastlingMoves_LandingOnly(b, row, col, color) ==
    LET piece == b[row][col]
        backRank == IF color = "white" THEN 7 ELSE 0
        kingsideRook == b[backRank][7]
        queensideRook == b[backRank][0]
    IN  IF piece.hasMoved \/ isKingInCheck(b, color) THEN {}
        ELSE IF row # backRank THEN {}
        ELSE (IF /\ kingsideRook.type = "rook" /\ ~kingsideRook.hasMoved
                 /\ ~Occupied(b, backRank, 5) /\ ~Occupied(b, backRank, 6)
                 /\ ~isSquareAttacked(b, backRank, 6, color)
              THEN {<<backRank, 6>>} ELSE {})
             \cup
             (IF /\ queensideRook.type = "rook" /\ ~queensideRook.hasMoved
                 /\ ~Occupied(b, backRank, 1) /\ ~Occupied(b, backRank, 2)
                 /\ ~Occupied(b, backRank, 3)
                 /\ ~isSquareAttacked(b, backRank, 2, color)
              THEN {<<backRank, 2>>} ELSE {})

calculateCastlingMoves(b, row, col, color) ==
    LET piece == b[row][col]
        backRank == IF color = "white" THEN 7 ELSE 0
        kingsideRook == b[backRank][7]
        queensideRook == b[backRank][0]
    IN  IF piece.hasMoved \/ isKingInCheck(b, color) THEN {}
        ELSE IF row # backRank THEN {}
        ELSE (IF /\ kingsideRook.type = "rook" /\ ~kingsideRook.hasMoved
                 /\ ~Occupied(b, backRank, 5) /\ ~Occupied(b, backRank, 6)
                 /\ ~isSquareAttacked(b, backRank, 5, color)
                 /\ ~isSquareAttacked(b, backRank, 6, color)
              THEN {<<backRank, 6>>} ELSE {})
             \cup
             (IF /\ queensideRook.type = "rook" /\ ~queensideRook.hasMoved
                 /\ ~Occupied(b, backRank, 1) /\ ~Occupied(b, backRank, 2)
                 /\ ~Occupied(b, backRank, 3)
                 /\ ~isSquareAttacked(b, backRank, 2, color)
                 /\ ~isSquareAttacked(b, backRank, 3, color)
              THEN {<<backRank, 2>>} ELSE {})

calculateKingMoves(b, row, col, color, opponentColor) ==
    offsetMoves(b, row, col, RookDirs \cup BishopDirs, opponentColor)
    \cup calculateCastlingMoves(b, row, col, color)

\* the switch of calculatePossibleMoves: the moves before the legality filter
pseudoMoves(b, lm, row, col) ==
    LET piece == b[row][col]
        color == piece.color
        opponentColor == Other(color)
        rays(dirs) == UNION {addDirectionalMoves(b, row, col, d[1], d[2], opponentColor)
                             : d \in dirs}
    IN  CASE piece.type = "pawn" -> calculatePawnMoves(b, lm, row, col, color, opponentColor)
          [] piece.type = "rook" -> rays(RookDirs)
          [] piece.type = "bishop" -> rays(BishopDirs)
          [] piece.type = "queen" -> rays(RookDirs \cup BishopDirs)
          [] piece.type = "knight" -> calculateKnightMoves(b, row, col, opponentColor)
          [] piece.type = "king" -> calculateKingMoves(b, row, col, color, opponentColor)
          [] OTHER -> {}

calculatePossibleMoves(b, t, lm, row, col) ==
    LET piece == b[row][col]
    IN  IF piece = NoPiece \/ piece.color # t THEN {}
        ELSE {s \in pseudoMoves(b, lm, row, col) :
                ~wouldBeInCheck(b, row, col, s[1], s[2], piece.color)}

hasNoLegalMoves(b, t, lm) ==
    \A r \in Rows, c \in Rows :
        b[r][c].color = t => calculatePossibleMoves(b, t, lm, r, c) = {}

isCheckmate(b, t, lm, chk) == IF ~chk THEN FALSE ELSE hasNoLegalMoves(b, t, lm)

isStalemate(b, t, lm, chk) == IF chk THEN FALSE ELSE hasNoLegalMoves(b, t, lm)

-----------------------------------------------------------------------------
(* Executing a move *)

executeCastling(b, fromRow, fromCol, toRow, toCol) ==
    LET isKingside == toCol > fromCol
        rookFromCol == IF isKingside THEN 7 ELSE 0
        rookToCol == IF isKingside THEN 5 ELSE 3
        b1 == [b EXCEPT ![toRow][toCol] = b[fromRow][fromCol],
                        ![fromRow][fromCol] = NoPiece]
    IN  [b1 EXCEPT ![toRow][rookToCol] = b1[fromRow][rookFromCol],
                   ![fromRow][rookFromCol] = NoPiece]

executeEnPassant(b, fromRow, fromCol, toRow, toCol) ==
    LET b1 == [b EXCEPT ![toRow][toCol] = b[fromRow][fromCol],
                        ![fromRow][fromCol] = NoPiece]
    IN  [b1 EXCEPT ![fromRow][toCol] = NoPiece]

isCastling(b, fromRow, fromCol, toRow, toCol) ==
    b[fromRow][fromCol].type = "king" /\ Abs(toCol - fromCol) = 2

isEnPassant(b, fromRow, fromCol, toRow, toCol) ==
    /\ b[fromRow][fromCol].type = "pawn"
    /\ ~Occupied(b, toRow, toCol)
    /\ fromCol # toCol

\* the board once movePiece has relocated the pieces and marked the mover
boardAfterMove(b, fromRow, fromCol, toRow, toCol) ==
    LET b1 == IF isCastling(b, fromRow, fromCol, toRow, toCol)
                 THEN executeCastling(b, fromRow, fromCol, toRow, toCol)
              ELSE IF isEnPassant(b, fromRow, fromCol, toRow, toCol)
                 THEN executeEnPassant(b, fromRow, fromCol, toRow, toCol)
              ELSE [b EXCEPT ![toRow][toCol] = b[fromRow][fromCol],
                             ![fromRow][fromCol] = NoPiece]
    IN  [b1 EXCEPT ![toRow][toCol].hasMoved = TRUE]

\* the ledger once movePiece has recorded what the move took
capturedAfterMove(b, cp, fromRow, fromCol, toRow, toCol) ==
    IF isCastling(b, fromRow, fromCol, toRow, toCol) THEN cp
    ELSE IF isEnPassant(b, fromRow, fromCol, toRow, toCol)
        THEN [cp EXCEPT ![b[fromRow][toCol].color] = Append(@, b[fromRow][toCol])]
    ELSE IF Occupied(b, toRow, toCol)
        THEN [cp EXCEPT ![b[toRow][toCol].color] = Append(@, b[toRow][toCol])]
    ELSE cp

\* mutant: the destination is looked up among the unfiltered moves
validMove_Unfiltered(b, t, lm, fromRow, fromCol, toRow, toCol) ==
    /\ b[fromRow][fromCol] # NoPiece
    /\ b[fromRow][fromCol].color = t
    /\ <<toRow, toCol>> \in pseudoMoves(b, lm, fromRow, fromCol)

\* the guard of movePiece: the two early returns
validMove(b, t, lm, fromRow, fromCol, toRow, toCol) ==
    /\ b[fromRow][fromCol] # NoPiece
    /\ b[fromRow][fromCol].color = t
    /\ <<toRow, toCol>> \in calculatePossibleMoves(b, t, lm, fromRow, fromCol)

\* mutant: pop() instead of shift() on overflow
pushHistory_DropNewest(h, moveData) ==
    LET h1 == Append(h, moveData)
    IN  IF maxMoveHistory # 0 /\ Len(h1) > maxMoveHistory
        THEN SubSeq(h1, 1, Len(h1) - 1) ELSE h1

\* moveHistory.push(moveData), then shift() on overflow
pushHistory(h, moveData) ==
    LET h1 == Append(h, moveData)
    IN  IF maxMoveHistory # 0 /\ Len(h1) > maxMoveHistory THEN Tail(h1) ELSE h1

\* mutant: the check flag is computed for the side that just moved
checkAfterMove_Mover(b, newTurn) == isKingInCheck(b, Other(newTurn))

\* this.check = this.isKingInCheck(this.turn), after the turn has switched
checkAfterMove(b, newTurn) == isKingInCheck(b, newTurn)

moveResult(b, fromRow, fromCol, toRow, toCol) ==
    IF b[fromRow][fromCol].type = "pawn" /\ (toRow = 0 \/ toRow = 7) THEN "promotion"
    ELSE IF isCastling(b, fromRow, fromCol, toRow, toCol) THEN "castle"
    ELSE "valid"

-----------------------------------------------------------------------------
(* Operations *)

Accepted == {"valid", "castle", "promotion"}

movePiece(fromRow, fromCol, toRow, toCol) ==
    /\ remaining > 0
    /\ remaining' = remaining - 1
    /\ UNCHANGED <<aiVars, botVars, gameVars, searchVars,
                 integrationVars>>
    /\ IF fromRow \notin Rows
       \* this.board[fromRow] is undefined: reading [fromCol] of it throws
       THEN /\ result' = "threw"
            /\ UNCHANGED <<engineVars, played>>
       ELSE IF fromCol \notin Rows
               \/ ~validMove(board, turn, lastMove, fromRow, fromCol, toRow, toCol)
       THEN /\ result' = "invalid"
            /\ UNCHANGED <<engineVars, played>>
       ELSE LET piece == board[fromRow][fromCol]
                moveData == [from |-> <<fromRow, fromCol>>,
                             to |-> <<toRow, toCol>>,
                             piece |-> piece,
                             captured |-> board[toRow][toCol],
                             boardState |-> board]
                newBoard == boardAfterMove(board, fromRow, fromCol, toRow, toCol)
                newTurn == Other(turn)
                newCheck == checkAfterMove(newBoard, newTurn)
            IN  /\ board' = newBoard
                /\ capturedPieces' = capturedAfterMove(board, capturedPieces,
                                                       fromRow, fromCol, toRow, toCol)
                /\ promotingPawn' =
                       IF piece.type = "pawn" /\ (toRow = 0 \/ toRow = 7)
                       THEN <<toRow, toCol>> ELSE promotingPawn
                /\ result' = moveResult(board, fromRow, fromCol, toRow, toCol)
                /\ lastMove' = moveData
                /\ moveHistory' = pushHistory(moveHistory, moveData)
                /\ turn' = newTurn
                /\ check' = newCheck
                /\ gameOver' = (isCheckmate(newBoard, newTurn, moveData, newCheck)
                                \/ isStalemate(newBoard, newTurn, moveData, newCheck))
                /\ played' = pushHistory(played,
                                 [piece |-> piece,
                                  from |-> <<fromRow, fromCol>>,
                                  to |-> <<toRow, toCol>>,
                                  board |-> board, turn |-> turn,
                                  capturedPieces |-> capturedPieces])

\* calls a caller makes besides the offered moves: e2-e5, e7-e5, e4-e5, Ke1-f1
ProbeInputs == {<< <<6, 4>>, <<3, 4>> >>, << <<1, 4>>, <<3, 4>> >>,
                << <<4, 4>>, <<3, 4>> >>, << <<7, 4>>, <<7, 5>> >>}

\* the moves offered to the side to move for the pieces on the given squares
OffersFrom(origins) ==
    UNION {{<<from, to>> : to \in calculatePossibleMoves(board, turn, lastMove,
                                                         from[1], from[2])}
           : from \in origins}

\* every offered move of the side to move
OfferedInputs == OffersFrom(Squares)

MovePiece ==
    /\ remaining > 0
    /\ \E in \in OfferedInputs \cup ProbeInputs :
          movePiece(in[1][1], in[1][2], in[2][1], in[2][2])

\* the documented arguments of completePromotion
PromotionTypes == {"queen", "rook", "bishop", "knight"}

\* board[row][col] = { type: pieceType, color: color, hasMoved: true }
promotedBoard(b, row, col, pieceType) ==
    [b EXCEPT ![row][col] = P(pieceType, b[row][col].color, TRUE)]

completePromotion(pieceType) ==
    /\ remaining > 0
    /\ remaining' = remaining - 1
    /\ UNCHANGED <<aiVars, botVars, gameVars, searchVars,
                 integrationVars>>
    /\ UNCHANGED <<turn, moveHistory, capturedPieces, check, gameOver, lastMove, played>>
    /\ IF promotingPawn = NoSquare
       THEN /\ result' = "noPromotion"
            /\ UNCHANGED <<board, promotingPawn>>
       ELSE IF ~Occupied(board, promotingPawn[1], promotingPawn[2])
       \* reading .color of null throws before anything is assigned
       THEN /\ result' = "threw"
            /\ UNCHANGED <<board, promotingPawn>>
       ELSE /\ board' = promotedBoard(board, promotingPawn[1], promotingPawn[2], pieceType)
            /\ promotingPawn' = NoSquare
            /\ result' = "promoted"

CompletePromotion == \E pieceType \in PromotionTypes : completePromotion(pieceType)

\* splice(findIndex(same type and colour), 1)
removeCaptured(ledger, captured) ==
    LET hits == {i \in 1..Len(ledger) :
                    ledger[i].type = captured.type /\ ledger[i].color = captured.color}
    IN  IF hits = {} THEN ledger
        ELSE LET index == CHOOSE i \in hits : \A j \in hits : i <= j
             IN  SubSeq(ledger, 1, index - 1) \o SubSeq(ledger, index + 1, Len(ledger))

\* the ledger once undoMove has given back what the undone move recorded
capturedAfterUndo(cp, undone) ==
    IF undone.captured # NoPiece
    THEN [cp EXCEPT ![undone.captured.color] = removeCaptured(@, undone.captured)]
    ELSE cp

\* this.lastMove after undoMove has popped the history
lastMoveAfterUndo(h) == IF Len(h) > 0 THEN h[Len(h)] ELSE NoMove

\* mutant: the move is reversed by hand, mover back and captured piece back
restoredBoard_MoveBack(b, undone) ==
    [b EXCEPT ![undone.from[1]][undone.from[2]] = undone.piece,
              ![undone.to[1]][undone.to[2]] = undone.captured]

\* this.board = lastMove.boardState.map(...): the snapshot taken before the move
restoredBoard(b, undone) == undone.boardState

\* the engine's fields
this == [board |-> board, turn |-> turn, moveHistory |-> moveHistory,
         capturedPieces |-> capturedPieces, check |-> check, gameOver |-> gameOver,
         lastMove |-> lastMove, promotingPawn |-> promotingPawn]

\* the fields once undoMove has popped and reversed the newest entry of a
\* non-empty history
undone(st) ==
    LET entry == st.moveHistory[Len(st.moveHistory)]
        rest == SubSeq(st.moveHistory, 1, Len(st.moveHistory) - 1)
        newBoard == restoredBoard(st.board, entry)
    IN  [board |-> newBoard,
         turn |-> Other(st.turn),
         moveHistory |-> rest,
         capturedPieces |-> capturedAfterUndo(st.capturedPieces, entry),
         check |-> isKingInCheck(newBoard, Other(st.turn)),
         gameOver |-> FALSE,
         lastMove |-> lastMoveAfterUndo(rest),
         promotingPawn |-> st.promotingPawn]

RECURSIVE UndoTimes(_, _)
\* the fields after n undoMove calls, n <= moveHistory.length
UndoTimes(st, n) == IF n = 0 THEN st ELSE UndoTimes(undone(st), n - 1)

undoMove ==
    /\ remaining > 0
    /\ remaining' = remaining - 1
    /\ UNCHANGED <<aiVars, botVars, gameVars, searchVars,
                 integrationVars>>
    /\ IF Len(moveHistory) = 0
       THEN /\ result' = "undoFalse"
            /\ UNCHANGED <<engineVars, played>>
       ELSE LET st == undone(this)
            IN  /\ board' = st.board
                /\ turn' = st.turn
                /\ moveHistory' = st.moveHistory
                /\ capturedPieces' = st.capturedPieces
                /\ check' = st.check
                /\ gameOver' = st.gameOver
                /\ lastMove' = st.lastMove
                /\ promotingPawn' = st.promotingPawn
                /\ result' = "undoTrue"
                /\ played' = SubSeq(played, 1, Len(played) - 1)

\* the snapshot exportState returns, of the fields of st that are modelled
exportState(st) ==
    [board |-> st.board, turn |-> st.turn, moveHistory |-> st.moveHistory,
     capturedPieces |-> st.capturedPieces, lastMove |-> st.lastMove]

\* the fields of a freshly constructed engine after importState(state)
importState(state) ==
    [board |-> state.board,
     turn |-> state.turn,
     moveHistory |-> state.moveHistory,
     capturedPieces |-> state.capturedPieces,
     lastMove |-> state.lastMove,
     check |-> isKingInCheck(state.board, state.turn),
     gameOver |-> (isCheckmate(state.board, state.turn, state.lastMove,
                               isKingInCheck(state.board, state.turn))
                   \/ isStalemate(state.board, state.turn, state.lastMove,
                                  isKingInCheck(state.board, state.turn))),
     promotingPawn |-> NoSquare]

-----------------------------------------------------------------------------
(* ChessEngineSystem (src/unnamed/part_000, lines 15-658): the computer    *)
(* opponent.  It searches on the engine it is handed: makeMove relocates a *)
(* piece on the engine's own board and undoMove puts it back, so every     *)
(* operator of the search takes the engine's fields and returns them.      *)
(* The personality is the constructor's default, 'balanced', whose weights *)
(* are all 1.0: the scores are integers.                                   *)

\* Infinity and -Infinity of the search windows
Infinity == 1000000000

Min(x, y) == IF x < y THEN x ELSE y

pieceValues == [pawn |-> 100, knight |-> 320, bishop |-> 330, rook |-> 500,
                queen |-> 900, king |-> 20000]

\* getPersonalityWeights() for 'balanced'
personalityWeights == [attack |-> 1, defense |-> 1, development |-> 1, center |-> 1]

pawnTable ==
    << <<0, 0, 0, 0, 0, 0, 0, 0>>,
       <<50, 50, 50, 50, 50, 50, 50, 50>>,
       <<10, 10, 20, 30, 30, 20, 10, 10>>,
       <<5, 5, 10, 25, 25, 10, 5, 5>>,
       <<0, 0, 0, 20, 20, 0, 0, 0>>,
       <<5, -5, -10, 0, 0, -10, -5, 5>>,
       <<5, 10, 10, -20, -20, 10, 10, 5>>,
       <<0, 0, 0, 0, 0, 0, 0, 0>> >>

knightTable ==
    << <<-50, -40, -30, -30, -30, -30, -40, -50>>,
       <<-40, -20, 0, 0, 0, 0, -20, -40>>,
       <<-30, 0, 10, 15, 15, 10, 0, -30>>,
       <<-30, 5, 15, 20, 20, 15, 5, -30>>,
       <<-30, 0, 15, 20, 20, 15, 0, -30>>,
       <<-30, 5, 10, 15, 15, 10, 5, -30>>,
       <<-40, -20, 0, 5, 5, 0, -20, -40>>,
       <<-50, -40, -30, -30, -30, -30, -40, -50>> >>

bishopTable ==
    << <<-20, -10, -10, -10, -10, -10, -10, -20>>,
       <<-10, 0, 0, 0, 0, 0, 0, -10>>,
       <<-10, 0, 5, 10, 10, 5, 0, -10>>,
       <<-10, 5, 5, 10, 10, 5, 5, -10>>,
       <<-10, 0, 10, 10, 10, 10, 0, -10>>,
       <<-10, 10, 10, 10, 10, 10, 10, -10>>,
       <<-10, 5, 0, 0, 0, 0, 5, -10>>,
       <<-20, -10, -10, -10, -10, -10, -10, -20>> >>

rookTable ==
    << <<0, 0, 0, 0, 0, 0, 0, 0>>,
       <<5, 10, 10, 10, 10, 10, 10, 5>>,
       <<-5, 0, 0, 0, 0, 0, 0, -5>>,
       <<-5, 0, 0, 0, 0, 0, 0, -5>>,
       <<-5, 0, 0, 0, 0, 0, 0, -5>>,
       <<-5, 0, 0, 0, 0, 0, 0, -5>>,
       <<-5, 0, 0, 0, 0, 0, 0, -5>>,
       <<0, 0, 0, 5, 5, 0, 0, 0>> >>

queenTable ==
    << <<-20, -10, -10, -5, -5, -10, -10, -20>>,
       <<-10, 0, 0, 0, 0, 0, 0, -10>>,
       <<-10, 0, 5, 5, 5, 5, 0, -10>>,
       <<-5, 0, 5, 5, 5, 5, 0, -5>>,
       <<0, 0, 5, 5, 5, 5, 0, -5>>,
       <<-10, 5, 5, 5, 5, 5, 0, -10>>,
       <<-10, 0, 5, 0, 0, 0, 0, -10>>,
       <<-20, -10, -10, -5, -5, -10, -10, -20>> >>

kingTable ==
    << <<-30, -40, -40, -50, -50, -40, -40, -30>>,
       <<-30, -40, -40, -50, -50, -40, -40, -30>>,
       <<-30, -40, -40, -50, -50, -40, -40, -30>>,
       <<-30, -40, -40, -50, -50, -40, -40, -30>>,
       <<-20, -30, -30, -40, -40, -30, -30, -20>>,
       <<-10, -20, -20, -20, -20, -20, -20, -10>>,
       <<20, 20, 0, 0, 0, 0, 20, 20>>,
       <<20, 30, 10, 0, 0, 10, 30, 20>> >>

\* Then applied to v, v being evaluated once whatever use Then makes of it
Bind(v, Then(_)) == CHOOSE r \in {Then(x) : x \in {v}} : TRUE

RECURSIVE SumSeq(_, _, _)
\* f[lo] + ... + f[hi]
SumSeq(f, lo, hi) ==
    IF lo > hi THEN 0
    ELSE IF lo = hi THEN f[lo]
    ELSE SumSeq(f, lo, (lo + hi) \div 2) + SumSeq(f, (lo + hi) \div 2 + 1, hi)

\* the squares in the order of the nested row and column loops, 1..64
SquareAt(i) == <<(i - 1) \div 8, (i - 1) % 8>>

\* mutant: the opponent's pieces are left out of the sum
evaluateMaterial_OwnOnly(b, forColor) ==
    Bind([i \in 1..64 |->
             LET piece == b[SquareAt(i)[1]][SquareAt(i)[2]]
             IN  IF piece = NoPiece THEN 0
                 ELSE IF piece.color = forColor THEN pieceValues[piece.type]
                 ELSE 0],
         LAMBDA score : SumSeq(score, 1, 64))

evaluateMaterial(b, forColor) ==
    Bind([i \in 1..64 |->
             LET piece == b[SquareAt(i)[1]][SquareAt(i)[2]]
             IN  IF piece = NoPiece THEN 0
                 ELSE IF piece.color = forColor THEN pieceValues[piece.type]
                 ELSE -pieceValues[piece.type]],
         LAMBDA score : SumSeq(score, 1, 64))

getPieceSquareValue(piece, row, col) ==
    LET r == IF piece.color = "white" THEN row ELSE 7 - row
    IN  CASE piece.type = "pawn" -> pawnTable[r + 1][col + 1]
          [] piece.type = "knight" -> knightTable[r + 1][col + 1]
          [] piece.type = "bishop" -> bishopTable[r + 1][col + 1]
          [] piece.type = "rook" -> rookTable[r + 1][col + 1]
          [] piece.type = "queen" -> queenTable[r + 1][col + 1]
          [] piece.type = "king" -> kingTable[r + 1][col + 1]
          [] OTHER -> 0

evaluatePosition_internal(b, forColor) ==
    Bind([i \in 1..64 |->
             LET row == SquareAt(i)[1]
                 col == SquareAt(i)[2]
                 piece == b[row][col]
             IN  IF piece = NoPiece THEN 0
                 ELSE IF piece.color = forColor THEN getPieceSquareValue(piece, row, col)
                 ELSE -getPieceSquareValue(piece, row, col)],
         LAMBDA score : SumSeq(score, 1, 64))
    * personalityWeights.development

\* ChessEngineSystem.findKing: the first king of the colour in row-major order
aiFindKing(b, color) == findKing(b, color)

evaluateKingSafety(b, forColor) ==
    LET king == aiFindKing(b, forColor)
        opponentKing == aiFindKing(b, Other(forColor))
    IN  IF king = NoSquare \/ opponentKing = NoSquare THEN 0
        ELSE (IF isKingInCheck(b, forColor) THEN -(50 * personalityWeights.defense) ELSE 0)
             + (IF b[king[1]][king[2]].hasMoved = FALSE THEN 20 ELSE 0)

\* findPieces(engine, 'pawn', color), as squares
findPawns(b, color) ==
    {s \in Squares : b[s[1]][s[2]].type = "pawn" /\ b[s[1]][s[2]].color = color}

evaluatePawnStructure(b, forColor) ==
    Bind(findPawns(b, forColor), LAMBDA pawns :
        LET onFile(c) == Cardinality({s \in pawns : s[2] = c})
            isolated == {s \in pawns : ~\E p \in pawns : Abs(p[2] - s[2]) = 1}
        IN  0 - Bind([k \in 1..8 |->
                         IF onFile(k - 1) > 1 THEN (onFile(k - 1) - 1) * 10 ELSE 0],
                     LAMBDA doubled : SumSeq(doubled, 1, 8))
              - 15 * Cardinality(isolated))

\* engine.turn is set to forColor for the count and put back afterwards
evaluateMobility(b, lm, forColor) ==
    2 * Bind([i \in 1..64 |->
                 LET row == SquareAt(i)[1]
                     col == SquareAt(i)[2]
                 IN  IF b[row][col].color = forColor
                     THEN Cardinality(calculatePossibleMoves(b, forColor, lm, row, col))
                     ELSE 0],
             LAMBDA moves : SumSeq(moves, 1, 64))

\* 1.0 for every personality but 'aggressive'
getPersonalityMultiplier(b, forColor) == 1

evaluatePosition(e, forColor) ==
    (evaluateMaterial(e.board, forColor)
     + evaluatePosition_internal(e.board, forColor)
     + evaluateKingSafety(e.board, forColor)
     + evaluatePawnStructure(e.board, forColor)
     + evaluateMobility(e.board, e.lastMove, forColor))
    * getPersonalityMultiplier(e.board, forColor)

\* the directions and offsets in the order the code walks them
RookDirSeq == << <<-1, 0>>, <<1, 0>>, <<0, -1>>, <<0, 1>> >>

BishopDirSeq == << <<-1, -1>>, <<-1, 1>>, <<1, -1>>, <<1, 1>> >>

KnightOffsetSeq == << <<-2, -1>>, <<-2, 1>>, <<-1, -2>>, <<-1, 2>>,
                      <<1, -2>>, <<1, 2>>, <<2, -1>>, <<2, 1>> >>

KingOffsetSeq == << <<-1, -1>>, <<-1, 0>>, <<-1, 1>>, <<0, -1>>,
                    <<0, 1>>, <<1, -1>>, <<1, 0>>, <<1, 1>> >>

RECURSIVE Flatten(_, _, _)
\* seqs[lo] \o ... \o seqs[hi]
Flatten(seqs, lo, hi) ==
    IF lo > hi THEN <<>>
    ELSE IF lo = hi THEN seqs[lo]
    ELSE Flatten(seqs, lo, (lo + hi) \div 2) \o Flatten(seqs, (lo + hi) \div 2 + 1, hi)

\* the squares of the rays, ray after ray, each from the piece outwards
rayTargets(row, col, dirs) ==
    Bind([d \in 1..Len(dirs) |->
             [k \in 1..7 |-> <<row + k * dirs[d][1], col + k * dirs[d][2]>>]],
         LAMBDA rays : Flatten(rays, 1, Len(rays)))

offsetTargets(row, col, offsets) ==
    [k \in 1..Len(offsets) |-> <<row + offsets[k][1], col + offsets[k][2]>>]

\* the squares calculatePossibleMoves may push for the piece, in the order of
\* its pushes
orderedTargets(b, row, col) ==
    LET piece == b[row][col]
        dir == IF piece.color = "white" THEN -1 ELSE 1
        backRank == IF piece.color = "white" THEN 7 ELSE 0
    IN  CASE piece.type = "pawn" ->
                << <<row + dir, col>>, <<row + 2 * dir, col>>,
                   <<row + dir, col - 1>>, <<row + dir, col + 1>> >>
          [] piece.type = "rook" -> rayTargets(row, col, RookDirSeq)
          [] piece.type = "bishop" -> rayTargets(row, col, BishopDirSeq)
          [] piece.type = "queen" -> rayTargets(row, col, RookDirSeq \o BishopDirSeq)
          [] piece.type = "knight" -> offsetTargets(row, col, KnightOffsetSeq)
          [] piece.type = "king" ->
                Bind(offsetMoves(b, row, col, RookDirs \cup BishopDirs, Other(piece.color)),
                     LAMBDA steps : SelectSeq(offsetTargets(row, col, KingOffsetSeq),
                                              LAMBDA s : s \in steps))
                \o Bind(calculateCastlingMoves(b, row, col, piece.color),
                        LAMBDA castles : SelectSeq(<< <<backRank, 6>>, <<backRank, 2>> >>,
                                                   LAMBDA s : s \in castles))
          [] OTHER -> <<>>

\* the array calculatePossibleMoves returns
possibleMovesList(b, t, lm, row, col) ==
    Bind(calculatePossibleMoves(b, t, lm, row, col), LAMBDA offered :
        IF offered = {} THEN <<>>
        ELSE SelectSeq(orderedTargets(b, row, col), LAMBDA s : s \in offered))

\* null where a move is expected
NoChoice == [from |-> <<>>, to |-> <<>>]

getAllPossibleMoves(e, color) ==
    Bind([i \in 1..64 |->
             LET row == SquareAt(i)[1]
                 col == SquareAt(i)[2]
             IN  IF e.board[row][col].color = color
                 THEN Bind(possibleMovesList(e.board, e.turn, e.lastMove, row, col),
                           LAMBDA destinations :
                               [k \in 1..Len(destinations) |->
                                   [from |-> <<row, col>>, to |-> destinations[k]]])
                 ELSE <<>>],
         LAMBDA moves : Flatten(moves, 1, 64))

\* ChessEngineSystem.makeMove: the piece is relocated on the engine's board
aiMakeMove(e, move) ==
    LET piece == e.board[move.from[1]][move.from[2]]
        captured == e.board[move.to[1]][move.to[2]]
        originalState == [piece |-> piece, captured |-> captured, turn |-> e.turn,
                          lastMove |-> e.lastMove, check |-> e.check]
        newBoard == [e.board EXCEPT ![move.to[1]][move.to[2]] = [piece EXCEPT !.hasMoved = TRUE],
                                    ![move.from[1]][move.from[2]] = NoPiece]
        newTurn == Other(e.turn)
    IN  IF piece = NoPiece
        THEN [success |-> FALSE, engine |-> e, originalState |-> originalState, move |-> move]
        ELSE [success |-> TRUE,
              engine |-> [e EXCEPT !.board = newBoard, !.turn = newTurn,
                                   !.check = isKingInCheck(newBoard, newTurn)],
              originalState |-> originalState, move |-> move]

\* mutant: originalState.piece is the moved object itself, not a copy of it
aiUndoMove_SharedPiece(e, made) ==
    LET from == made.move.from
        to == made.move.to
        originalState == made.originalState
    IN  [e EXCEPT !.board = [e.board EXCEPT ![from[1]][from[2]] = e.board[to[1]][to[2]],
                                            ![to[1]][to[2]] = originalState.captured],
                  !.turn = originalState.turn,
                  !.lastMove = originalState.lastMove,
                  !.check = originalState.check]

\* ChessEngineSystem.undoMove
aiUndoMove(e, made) ==
    LET from == made.move.from
        to == made.move.to
        originalState == made.originalState
    IN  [e EXCEPT !.board = [e.board EXCEPT ![from[1]][from[2]] = originalState.piece,
                                            ![to[1]][to[2]] = originalState.captured],
                  !.turn = originalState.turn,
                  !.lastMove = originalState.lastMove,
                  !.check = originalState.check]

RECURSIVE minimax(_, _, _, _, _)
RECURSIVE minimaxLoop(_, _, _, _, _, _)

\* one pass through the body of the for loop of minimax.  acc holds the
\* engine, the window, the best evaluation so far and whether the loop has
\* hit its break.
minimaxStep(acc, move, depth, isMaximizing) ==
    Bind(aiMakeMove(acc.engine, move), LAMBDA made :
        IF acc.broken \/ ~made.success THEN acc
        ELSE Bind(minimax(made.engine, depth - 1, ~isMaximizing, acc.alpha, acc.beta),
                  LAMBDA child :
                      LET evaluation == child.score
                          newAlpha == IF isMaximizing THEN Max(acc.alpha, evaluation)
                                      ELSE acc.alpha
                          newBeta == IF isMaximizing THEN acc.beta
                                     ELSE Min(acc.beta, evaluation)
                      IN  [engine |-> aiUndoMove(child.engine, made),
                           alpha |-> newAlpha,
                           beta |-> newBeta,
                           best |-> IF isMaximizing THEN Max(acc.best, evaluation)
                                    ELSE Min(acc.best, evaluation),
                           broken |-> newBeta <= newAlpha]))

\* the for loop of minimax over allMoves[lo..hi], in order
minimaxLoop(acc, allMoves, lo, hi, depth, isMaximizing) ==
    IF lo > hi THEN acc
    ELSE IF lo = hi THEN minimaxStep(acc, allMoves[lo], depth, isMaximizing)
    ELSE Bind(minimaxLoop(acc, allMoves, lo, (lo + hi) \div 2, depth, isMaximizing),
              LAMBDA first :
                  IF first.broken THEN first
                  ELSE minimaxLoop(first, allMoves, (lo + hi) \div 2 + 1, hi,
                                   depth, isMaximizing))

\* [score, engine]: the value minimax returns and the engine as it leaves it
minimax(e, depth, isMaximizing, alpha, beta) ==
    LET color == IF isMaximizing THEN "white" ELSE "black"
    IN  IF depth = 0 \/ e.gameOver
        THEN [score |-> evaluatePosition(e, color), engine |-> e]
        ELSE Bind(getAllPossibleMoves(e, color), LAMBDA allMoves :
             Bind(minimaxLoop([engine |-> e, alpha |-> alpha, beta |-> beta,
                               best |-> IF isMaximizing THEN -Infinity ELSE Infinity,
                               broken |-> FALSE],
                              allMoves, 1, Len(allMoves), depth, isMaximizing),
                  LAMBDA done : [score |-> done.best, engine |-> done.engine]))

\* one pass through the body of the for loop of getBestMoveMinMax: every
\* root move is searched with the full window
rootStep(acc, move, depth, isMaximizing) ==
    Bind(aiMakeMove(acc.engine, move), LAMBDA made :
        IF ~made.success THEN acc
        ELSE Bind(minimax(made.engine, depth - 1, ~isMaximizing, -Infinity, Infinity),
                  LAMBDA child :
                      LET score == child.score
                          better == IF isMaximizing THEN score > acc.bestScore
                                    ELSE score < acc.bestScore
                      IN  [engine |-> aiUndoMove(child.engine, made),
                           bestScore |-> IF better THEN score ELSE acc.bestScore,
                           bestMove |-> IF better THEN move ELSE acc.bestMove]))

RECURSIVE rootLoop(_, _, _, _, _, _)
\* the for loop of getBestMoveMinMax over allMoves[lo..hi], in order
rootLoop(acc, allMoves, lo, hi, depth, isMaximizing) ==
    IF lo > hi THEN acc
    ELSE IF lo = hi THEN rootStep(acc, allMoves[lo], depth, isMaximizing)
    ELSE Bind(rootLoop(acc, allMoves, lo, (lo + hi) \div 2, depth, isMaximizing),
              LAMBDA first :
                  rootLoop(first, allMoves, (lo + hi) \div 2 + 1, hi, depth, isMaximizing))

\* mutant: the first move of the shuffled list is returned whatever its score
getBestMoveMinMax_FirstMove(e, color, depth, shuffled) ==
    IF shuffled = <<>> THEN [move |-> NoChoice, score |-> 0, engine |-> e]
    ELSE Bind(rootLoop([engine |-> e,
                        bestScore |-> IF color = "white" THEN -Infinity ELSE Infinity,
                        bestMove |-> NoChoice],
                       shuffled, 1, 1, depth, color = "white"),
              LAMBDA done : [move |-> shuffled[1],
                             score |-> done.bestScore,
                             engine |-> done.engine])

\* getBestMoveMinMax once shuffleArray has left allMoves in the order shuffled:
\* the move returned, the score the search gave it, the engine as it is left
getBestMoveMinMax(e, color, depth, shuffled) ==
    IF shuffled = <<>> THEN [move |-> NoChoice, score |-> 0, engine |-> e]
    ELSE Bind(rootLoop([engine |-> e,
                        bestScore |-> IF color = "white" THEN -Infinity ELSE Infinity,
                        bestMove |-> NoChoice],
                       shuffled, 1, Len(shuffled), depth, color = "white"),
              LAMBDA done : [move |-> IF done.bestMove # NoChoice THEN done.bestMove
                                      ELSE shuffled[1],
                             score |-> done.bestScore,
                             engine |-> done.engine])

\* the score the loop of getBestMoveMinMax computes for one root move
rootScore(e, color, depth, move) ==
    minimax(aiMakeMove(e, move).engine, depth - 1, color # "white", -Infinity, Infinity).score

Reverse(s) == [i \in 1..Len(s) |-> s[Len(s) + 1 - i]]

\* the orders shuffleArray is made to leave the root moves in
Shuffles(allMoves) == {allMoves, Reverse(allMoves)}

\* mutant: the index drawn may be one past the end of the array
RandomChoices_OffByOne(allMoves) ==
    {allMoves[i] : i \in 1..Len(allMoves)} \cup {NoChoice}

\* allMoves[Math.floor(Math.random() * allMoves.length)], or null
RandomChoices(allMoves) ==
    IF Len(allMoves) > 0 THEN {allMoves[i] : i \in 1..Len(allMoves)} ELSE {NoChoice}

\* what getRandomMove may return
getRandomMove(e, color) ==
    Bind(getAllPossibleMoves(e, color), LAMBDA allMoves : RandomChoices(allMoves))

\* what getSuboptimalMove may return
getSuboptimalMove(e, color) ==
    Bind(getAllPossibleMoves(e, color), LAMBDA allMoves :
        IF Len(allMoves) <= 3 THEN getRandomMove(e, color)
        ELSE RandomChoices(SubSeq(allMoves, 4, Len(allMoves))))

RECURSIVE searches(_, _, _, _)
\* what getBestMoveMinMax(engine, color, currentDepth) finds in each iteration
\* of getBestMoveWithTime from currentDepth on, each search starting on the
\* engine as the one before has left it
searches(e, color, shuffled, currentDepth) ==
    IF currentDepth > 6 THEN <<>>
    ELSE Bind(getBestMoveMinMax(e, color, currentDepth, shuffled), LAMBDA found :
             <<[depth |-> currentDepth, move |-> found.move, score |-> found.score,
                engine |-> found.engine]>>
             \o searches(found.engine, color, shuffled, currentDepth + 1))

RECURSIVE timeLoop(_, _, _, _, _)
\* the while loop of getBestMoveWithTime.  ticks counts the times the clock
\* still shows less than timeLimit when the loop condition reads it; ran
\* lists the iterations made so far.
timeLoop(e, found, ticks, currentDepth, ran) ==
    IF ~(ticks > 0 /\ currentDepth <= 6)
    THEN [engine |-> IF ran = <<>> THEN e ELSE ran[Len(ran)].engine, ran |-> ran]
    ELSE timeLoop(e, found, ticks - 1, currentDepth + 1, Append(ran, found[currentDepth]))

\* mutant: the move of the first iteration is kept
getBestMoveWithTime_FirstIteration(e, found, ticks) ==
    LET done == timeLoop(e, found, ticks, 1, <<>>)
        moved == SelectSeq(done.ran, LAMBDA it : it.move # NoChoice)
    IN  [move |-> IF moved = <<>> THEN NoChoice ELSE moved[1].move,
         score |-> IF moved = <<>> THEN 0 ELSE moved[1].score,
         ran |-> done.ran, engine |-> done.engine]

\* getBestMoveWithTime up to its return statement, found being the results
\* of its searches; a result without a move makes it fall back on
\* getRandomMove.  bestMove is the move of the last iteration that found one.
getBestMoveWithTime(e, found, ticks) ==
    LET done == timeLoop(e, found, ticks, 1, <<>>)
        moved == SelectSeq(done.ran, LAMBDA it : it.move # NoChoice)
    IN  [move |-> IF moved = <<>> THEN NoChoice ELSE moved[Len(moved)].move,
         score |-> IF moved = <<>> THEN 0 ELSE moved[Len(moved)].score,
         ran |-> done.ran, engine |-> done.engine]

-----------------------------------------------------------------------------
(* Initial states.  Besides the freshly constructed engine, the engine is  *)
(* started in mid-game positions of legal play with an empty history: the  *)
(* state importState leaves for such a snapshot, and the state left when   *)
(* the plies still in the history have all been undone (the board is the   *)
(* position again, lastMove is null, check is recomputed).                 *)

Place(pieces) ==
    [r \in Rows |-> [c \in Rows |->
        IF \E p \in pieces : p[1] = <<r, c>>
        THEN (CHOOSE p \in pieces : p[1] = <<r, c>>)[2]
        ELSE NoPiece]]

PieceTypes == <<"pawn", "knight", "bishop", "rook", "queen">>

StartCount(type) == IF type = "pawn" THEN 8 ELSE IF type = "queen" THEN 1 ELSE 2

CountOn(b, type, color) ==
    Cardinality({s \in Squares : b[s[1]][s[2]].type = type /\ b[s[1]][s[2]].color = color})

RECURSIVE Copies(_, _)
Copies(piece, n) == IF n <= 0 THEN <<>> ELSE <<piece>> \o Copies(piece, n - 1)

RECURSIVE LedgerFrom(_, _, _)
\* the pieces of the colour that were pushed to the ledger to reach b
LedgerFrom(b, color, i) ==
    IF i > Len(PieceTypes) THEN <<>>
    ELSE Copies(P(PieceTypes[i], color, TRUE),
                StartCount(PieceTypes[i]) - CountOn(b, PieceTypes[i], color))
         \o LedgerFrom(b, color, i + 1)

\* Black to move.  White Ka5, pawn e5; Black Kh6, Rh5, pawns d7 (unmoved), h4.
\* After d7-d5 the white pawn may take en passant, which opens the fifth rank.
EnPassantPin ==
    [board |-> Place({<< <<3, 0>>, P("king", "white", TRUE) >>,
                      << <<3, 4>>, P("pawn", "white", TRUE) >>,
                      << <<2, 7>>, P("king", "black", TRUE) >>,
                      << <<3, 7>>, P("rook", "black", TRUE) >>,
                      << <<4, 7>>, P("pawn", "black", TRUE) >>,
                      << <<1, 3>>, P("pawn", "black", FALSE) >>}),
     turn |-> "black"]

\* White to move.  White Kh1, pawn a7; Black Kc7, Nb8.
\* The pawn promotes on a8 or by taking on b8, next to the black king.
Promotion ==
    [board |-> Place({<< <<7, 7>>, P("king", "white", TRUE) >>,
                      << <<1, 0>>, P("pawn", "white", TRUE) >>,
                      << <<1, 2>>, P("king", "black", TRUE) >>,
                      << <<0, 1>>, P("knight", "black", FALSE) >>}),
     turn |-> "white"]

\* White to move.  White Ke1, Ra1, Rh1, pawns a2, h2, all unmoved;
\* Black Kh3, pawn g2 (attacks f1 and h1).
Castling ==
    [board |-> Place({<< <<7, 4>>, P("king", "white", FALSE) >>,
                      << <<7, 0>>, P("rook", "white", FALSE) >>,
                      << <<7, 7>>, P("rook", "white", FALSE) >>,
                      << <<6, 0>>, P("pawn", "white", FALSE) >>,
                      << <<6, 7>>, P("pawn", "white", FALSE) >>,
                      << <<5, 7>>, P("king", "black", TRUE) >>,
                      << <<6, 6>>, P("pawn", "black", TRUE) >>}),
     turn |-> "white"]

\* White to move.  White Kc1, Rb1; Black Kh8, pawns g7, h7 (unmoved).
\* Rb1-b8 is the back-rank mate.
BackRank ==
    [board |-> Place({<< <<7, 2>>, P("king", "white", TRUE) >>,
                      << <<7, 1>>, P("rook", "white", TRUE) >>,
                      << <<0, 7>>, P("king", "black", TRUE) >>,
                      << <<1, 6>>, P("pawn", "black", FALSE) >>,
                      << <<1, 7>>, P("pawn", "black", FALSE) >>}),
     turn |-> "white"]

\* White to move.  White Kc5, pawn a7; Black Ka8.  Kc5-b6 stalemates.
Stalemate ==
    [board |-> Place({<< <<3, 2>>, P("king", "white", TRUE) >>,
                      << <<1, 0>>, P("pawn", "white", TRUE) >>,
                      << <<0, 0>>, P("king", "black", TRUE) >>}),
     turn |-> "white"]

Positions == {EnPassantPin, Promotion, Castling, BackRank, Stalemate}

InitEngine(b, t, cp, calls) ==
    /\ board = b
    /\ turn = t
    /\ moveHistory = <<>>
    /\ capturedPieces = cp
    /\ check = isKingInCheck(b, t)
    /\ gameOver = (isCheckmate(b, t, NoMove, isKingInCheck(b, t))
                   \/ isStalemate(b, t, NoMove, isKingInCheck(b, t)))
    /\ lastMove = NoMove
    /\ promotingPawn = NoSquare
    /\ result = "none"
    /\ played = <<>>
    /\ remaining = calls

\* the fields the constructor of the bot-vs-bot ChessEngine sets, the board
\* apart
InitBotFields ==
    /\ currentPlayer = "white"
    /\ winner = "none"
    /\ enPassantTarget = NoSquare
    /\ castlingRights = [white |-> [kingside |-> TRUE, queenside |-> TRUE],
                         black |-> [kingside |-> TRUE, queenside |-> TRUE]]

\* the fields the constructor of ChessGame sets, and nothing suspended
InitGameFields ==
    /\ selectedSquare = NoSquare
    /\ possibleMoves = {}
    /\ vsComputer = FALSE
    /\ computerSide = "black"
    /\ thinking = <<>>
    /\ undoTimers = 0
    /\ applied = <<>>

\* no call served yet, and the table the constructor of AdvancedHintEngine
\* makes: a Map without entries
InitSearchFields ==
    /\ request = <<>>
    /\ reply = <<>>
    /\ transpositionTable = <<>>

\* the fields the constructor of ExtendedChessAIIntegration sets, on a page
\* without pending timers
InitIntegrationFields ==
    /\ isThinking = FALSE
    /\ now = 0
    /\ timers = {}
    /\ frames = <<>>

\* the path of a chooseMove call, before any call
NoTrace == [branch |-> "none", color |-> "none", score |-> 0, depth |-> 0, ticks |-> 0,
            iterations |-> <<>>]

\* the fields the constructor of ChessEngineSystem sets
InitSystem(level) ==
    /\ difficulty = level
    /\ sabotaged = FALSE
    /\ sabotageMoves = 0
    /\ chosen = NoChoice
    /\ trace = NoTrace
    /\ sabotageArg = 0
    /\ bypassLog = <<>>

Init ==
    /\ \/ InitEngine(setupBoard, "white", [white |-> <<>>, black |-> <<>>], StartCalls)
       \/ \E p \in Positions :
             InitEngine(p.board, p.turn,
                        [white |-> LedgerFrom(p.board, "white", 1),
                         black |-> LedgerFrom(p.board, "black", 1)],
                        MaxCalls)
    /\ InitSystem(3)
    /\ InitBotFields
    /\ InitGameFields
    /\ InitSearchFields
    /\ InitIntegrationFields

Next == MovePiece \/ CompletePromotion \/ undoMove

Spec == Init /\ [][Next]_vars

-----------------------------------------------------------------------------
(* The computer opponent at work: a ChessEngineSystem of some difficulty   *)
(* is handed an engine in a small position and asked for moves; sabotage   *)
(* is called between the requests.  The engine is never moved here, which  *)
(* is the state of the program between the controller's request for a move *)
(* and the move's execution.                                               *)

\* mutant: the flag alone decides
bypasses_FlagOnly(flag, moves) == flag

\* the test at the head of chooseMove
bypasses(flag, moves) == flag /\ moves > 0

\* the depth each case of the switch hands to getBestMoveMinMax
searchDepth(level) ==
    CASE level = 1 -> 1
      [] level = 2 -> 2
      [] level = 3 -> 3
      [] level = 4 -> 4
      [] OTHER -> 3

\* the depths and moves of the iterations a timed search has made
Iterations(ran) == [i \in 1..Len(ran) |-> [depth |-> ran[i].depth, move |-> ran[i].move]]

Path(branch, color, score, depth, ticks, ran) ==
    [branch |-> branch, color |-> color, score |-> score, depth |-> depth,
     ticks |-> ticks, iterations |-> Iterations(ran)]

\* chooseMove returns move, having left the engine as e
chooseMoveReturns(e, move, path) ==
    /\ board' = e.board
    /\ turn' = e.turn
    /\ check' = e.check
    /\ lastMove' = e.lastMove
    /\ chosen' = move
    /\ trace' = path

chooseMove(color) ==
    /\ remaining > 0
    /\ remaining' = remaining - 1
    /\ result' = "chooseMove"
    /\ UNCHANGED <<moveHistory, capturedPieces, gameOver, promotingPawn, played,
                   difficulty, sabotaged, sabotageArg, botVars, gameVars, searchVars,
                                integrationVars>>
    /\ IF bypasses(sabotaged, sabotageMoves)
       THEN /\ sabotageMoves' = sabotageMoves - 1
            /\ bypassLog' = Append(bypassLog, TRUE)
            /\ \E move \in getRandomMove(this, color) :
                  chooseMoveReturns(this, move, Path("bypass", color, 0, 0, 0, <<>>))
       ELSE /\ sabotageMoves' = sabotageMoves
            /\ bypassLog' = Append(bypassLog, FALSE)
            /\ \E allMoves \in {getAllPossibleMoves(this, color)} :
                  IF Len(allMoves) = 0
                  THEN chooseMoveReturns(this, NoChoice, Path("empty", color, 0, 0, 0, <<>>))
                  ELSE \* Math.random() falls on either side of the threshold
                       \/ /\ difficulty \in 1..4
                          /\ \E shuffled \in Shuffles(allMoves) :
                             \E found \in {getBestMoveMinMax(this, color,
                                               searchDepth(difficulty), shuffled)} :
                                chooseMoveReturns(found.engine, found.move,
                                    Path("minimax", color, found.score,
                                         searchDepth(difficulty), 0, <<>>))
                       \/ /\ difficulty \in 1..2
                          /\ \E move \in getRandomMove(this, color) :
                                chooseMoveReturns(this, move,
                                                  Path("random", color, 0, 0, 0, <<>>))
                       \/ /\ difficulty = 3
                          /\ \E move \in getSuboptimalMove(this, color) :
                                chooseMoveReturns(this, move,
                                                  Path("suboptimal", color, 0, 0, 0, <<>>))
                       \/ /\ difficulty = 5
                          /\ \E shuffled \in Shuffles(allMoves) :
                             \E found \in {searches(this, color, shuffled, 1)} :
                             \E ticks \in 0..MaxTicks :
                             \E done \in {getBestMoveWithTime(this, found, ticks)} :
                                IF done.move # NoChoice
                                THEN chooseMoveReturns(done.engine, done.move,
                                         Path("timed", color, done.score,
                                              Len(done.ran), ticks, done.ran))
                                ELSE \E move \in getRandomMove(done.engine, color) :
                                         chooseMoveReturns(done.engine, move,
                                             Path("timedRandom", color, 0,
                                                  Len(done.ran), ticks, done.ran))

ChooseMove == \E color \in {"white", "black"} : chooseMove(color)

sabotage(turns) ==
    /\ remaining > 0
    /\ remaining' = remaining - 1
    /\ sabotaged' = TRUE
    /\ sabotageMoves' = turns
    /\ sabotageArg' = turns
    /\ bypassLog' = <<>>
    /\ result' = "sabotage"
    /\ UNCHANGED <<engineVars, played, difficulty, chosen, trace, botVars, gameVars, searchVars,
                 integrationVars>>

Sabotage == \E turns \in 0..MaxSabotage : sabotage(turns)

\* White to move.  White king on wk, pawns a6, c6 and f2, h2 (unmoved);
\* Black king on bk, pawns a7, c7 (unmoved) and f3, h3.  The pawns block
\* each other and fence the kings in: only the kings move.
Cage(wk, bk) ==
    [board |-> Place({<< wk, P("king", "white", TRUE) >>,
                      << <<6, 7>>, P("pawn", "white", FALSE) >>,
                      << <<6, 5>>, P("pawn", "white", FALSE) >>,
                      << <<2, 0>>, P("pawn", "white", TRUE) >>,
                      << <<2, 2>>, P("pawn", "white", TRUE) >>,
                      << bk, P("king", "black", TRUE) >>,
                      << <<1, 0>>, P("pawn", "black", FALSE) >>,
                      << <<1, 2>>, P("pawn", "black", FALSE) >>,
                      << <<5, 5>>, P("pawn", "black", TRUE) >>,
                      << <<5, 7>>, P("pawn", "black", TRUE) >>}),
     turn |-> "white"]

\* Black to move and without a legal move: White Kb6, pawn a7; Black Ka8.
Stalemated ==
    [board |-> Place({<< <<2, 1>>, P("king", "white", TRUE) >>,
                      << <<1, 0>>, P("pawn", "white", TRUE) >>,
                      << <<0, 0>>, P("king", "black", TRUE) >>}),
     turn |-> "black"]

\* the engine each opponent is handed, its difficulty, and the calls made
Matches ==
    {[position |-> EnPassantPin, difficulty |-> 1, calls |-> AICalls],
     [position |-> Promotion, difficulty |-> 1, calls |-> AICalls],
     [position |-> Stalemated, difficulty |-> 2, calls |-> AICalls],
     [position |-> Castling, difficulty |-> 2, calls |-> DeepCalls],
     [position |-> Stalemate, difficulty |-> 3, calls |-> DeepCalls],
     [position |-> Cage(<<7, 6>>, <<0, 0>>), difficulty |-> 3, calls |-> DeepCalls],
     [position |-> Cage(<<7, 5>>, <<0, 0>>), difficulty |-> 4, calls |-> DeepCalls],
     [position |-> Cage(<<7, 6>>, <<0, 0>>), difficulty |-> 4, calls |-> DeepCalls],
     [position |-> Cage(<<7, 6>>, <<0, 0>>), difficulty |-> 5, calls |-> DeepCalls]}

InitAI ==
    \E m \in Matches :
       /\ InitEngine(m.position.board, m.position.turn,
                     [white |-> LedgerFrom(m.position.board, "white", 1),
                      black |-> LedgerFrom(m.position.board, "black", 1)],
                     m.calls)
       /\ InitSystem(m.difficulty)
       /\ InitBotFields
       /\ InitGameFields
       /\ InitSearchFields
       /\ InitIntegrationFields

NextAI == ChooseMove \/ Sabotage

SpecAI == InitAI /\ [][NextAI]_vars

-----------------------------------------------------------------------------
(* Properties *)

\* C1: once movePiece has fully executed an offered move (the captured pawn
\* of an en passant removed, the rook of a castling relocated), the king of
\* the side that moved is not attacked.
C1_MoverKingSafe ==
    result \in Accepted => ~isKingInCheck(board, Other(turn))

\* C2: movePiece returns 'invalid' and leaves every field of the engine
\* unchanged whenever the origin is empty, holds a piece of the side not to
\* move, or the destination is not among calculatePossibleMoves(origin).
\* Stated on the steps: a call that returns 'invalid' changes nothing, and a
\* call that returns anything else was made for a piece of the side to move
\* and a destination offered for it in the state before the call.
C2_InvalidLeavesState ==
    [][/\ result' = "invalid" => engineVars' = engineVars
       /\ result' \in Accepted =>
            /\ board[lastMove'.from[1]][lastMove'.from[2]] # NoPiece
            /\ board[lastMove'.from[1]][lastMove'.from[2]].color = turn
            /\ lastMove'.to \in calculatePossibleMoves(board, turn, lastMove,
                                    lastMove'.from[1], lastMove'.from[2])]_vars

\* an invalid call made after the game has advanced
C2_Witness == result = "invalid" /\ moveHistory # <<>>

\* C3: when movePiece returns 'promotion' the engine is promotion-pending and
\* the side to move is still the side of the promoting pawn.
C3_PromotionKeepsTurn ==
    result = "promotion" =>
        /\ promotingPawn # NoSquare
        /\ board[promotingPawn[1]][promotingPawn[2]].color = turn

\* C4: n accepted movePiece calls, n <= maxMoveHistory (promotions completed),
\* followed by n undoMove calls leave the board (type, colour and hasMoved of
\* every square) and the side to move as they were before the sequence.
\* played[k] records the board and the turn before the k-th retained ply.
C4_UndoRoundTrip ==
    \A n \in 1..Len(moveHistory) :
        LET st == UndoTimes(this, n)
            before == played[Len(played) - n + 1]
        IN  st.board = before.board /\ st.turn = before.turn

\* two plies to undo, one of them a completed promotion
C4_Witness ==
    /\ Len(moveHistory) >= 2
    /\ promotingPawn = NoSquare
    /\ \E i \in 1..Len(moveHistory) :
          moveHistory[i].piece.type = "pawn" /\ moveHistory[i].to[1] \in {0, 7}

CountIn(ledger, type) == Cardinality({i \in 1..Len(ledger) : ledger[i].type = type})

\* the two ledgers hold the same pieces, whatever their order
SameLedger(a, b) ==
    \A color \in {"white", "black"} :
        /\ Len(a[color]) = Len(b[color])
        /\ \A i \in 1..Len(PieceTypes) :
              CountIn(a[color], PieceTypes[i]) = CountIn(b[color], PieceTypes[i])

\* C5: after an accepted movePiece that captures a piece (ordinary capture,
\* capture with promotion, en passant) followed by undoMove, the two lists of
\* capturedPieces contain exactly the pieces they contained before the move.
C5_UndoRestoresLedger ==
    (moveHistory # <<>> /\ capturedPieces # played[Len(played)].capturedPieces)
    => SameLedger(undone(this).capturedPieces, played[Len(played)].capturedPieces)

\* the en passant captures offered to the side to move: <<from, to>>
EnPassantOffers ==
    {in \in OffersFrom({s \in Squares : board[s[1]][s[2]].type = "pawn"}) :
        isEnPassant(board, in[1][1], in[1][2], in[2][1], in[2][2])}

\* C6: an en passant capture is offered to a pawn only when the ply played
\* immediately before was an opposing pawn's two-square advance that landed
\* beside it on the same rank; hence not once another move has intervened.
C6_EnPassantOnlyAfterPush ==
    \A in \in EnPassantOffers :
        /\ played # <<>>
        /\ LET prev == played[Len(played)]
           IN  /\ prev.piece.type = "pawn"
               /\ prev.piece.color = Other(turn)
               /\ Abs(prev.from[1] - prev.to[1]) = 2
               /\ prev.from[2] = prev.to[2]
               /\ prev.to = <<in[1][1], in[2][2]>>
               /\ board[prev.to[1]][prev.to[2]].type = "pawn"
               /\ board[prev.to[1]][prev.to[2]].color = Other(turn)

\* an en passant capture is on offer
C6_Witness == EnPassantOffers # {}

\* the castling moves offered to the side to move: <<from, to>>
CastlingOffers ==
    {in \in OffersFrom({s \in Squares : board[s[1]][s[2]].type = "king"}) :
        isCastling(board, in[1][1], in[1][2], in[2][1], in[2][2])}

\* C7: no castling move is offered when the king or the rook of that side has
\* moved, when a square between them is occupied, when the king is in check,
\* or when the square the king crosses or lands on is attacked.
C7_CastlingConditions ==
    \A in \in CastlingOffers :
        LET row == in[1][1]
            kingside == in[2][2] > in[1][2]
            rook == board[row][IF kingside THEN 7 ELSE 0]
            between == IF kingside THEN {5, 6} ELSE {1, 2, 3}
            crossed == IF kingside THEN 5 ELSE 3
        IN  /\ ~board[row][in[1][2]].hasMoved
            /\ rook.type = "rook" /\ rook.color = turn /\ ~rook.hasMoved
            /\ \A c \in between : ~Occupied(board, row, c)
            /\ ~isKingInCheck(board, turn)
            /\ ~isSquareAttacked(board, row, crossed, turn)
            /\ ~isSquareAttacked(board, row, in[2][2], turn)

\* after some plies, castling is offered on one wing while the other wing's
\* crossing square is attacked
C7_Witness ==
    /\ moveHistory # <<>>
    /\ CastlingOffers # {}
    /\ \E c \in {3, 5} : isSquareAttacked(board, 7, c, "white")
    /\ turn = "white"

C9_OneKingEach ==
    \A color \in {"white", "black"} : Cardinality(Kings(board, color)) = 1

\* C10: with maxMoveHistory = N > 0 an accepted move leaves at most N entries;
\* on overflow exactly the oldest is dropped, the others keep their order and
\* contents, and lastMove is the newest entry.
C10_HistoryBounded ==
    [][result' \in Accepted =>
         /\ Len(moveHistory') <= maxMoveHistory
         /\ moveHistory' =
              (IF Len(moveHistory) >= maxMoveHistory THEN Tail(moveHistory)
               ELSE moveHistory) \o <<lastMove'>>
         /\ lastMove'.boardState = board]_vars

\* the history is full and its oldest entry was not made from an initial
\* board: an older entry has been evicted
C10_Witness ==
    /\ result \in Accepted
    /\ Len(moveHistory) = maxMoveHistory
    /\ moveHistory[1].boardState \notin ({p.board : p \in Positions} \cup {setupBoard})

\* C11: on a freshly set-up board calculatePossibleMoves returns 20
\* destinations in total over the White pieces: two for each of the eight
\* pawns, two for each knight, none for any other piece.
C11_TwentyOpeningMoves ==
    (board = setupBoard /\ turn = "white" /\ lastMove = NoMove) =>
        /\ Cardinality(OffersFrom(Squares)) = 20
        /\ \A s \in Squares :
              board[s[1]][s[2]].color = "white" =>
                 Cardinality(calculatePossibleMoves(board, turn, lastMove, s[1], s[2]))
                 = (IF board[s[1]][s[2]].type \in {"pawn", "knight"} THEN 2 ELSE 0)

\* the fresh board, where a caller has just asked for e2-e5 and been refused
C11_Witness ==
    /\ board = setupBoard /\ turn = "white" /\ lastMove = NoMove
    /\ result = "invalid"

-----------------------------------------------------------------------------
(* The engine handed coordinates off the board. *)

\* origins and destinations with a row or a column outside 0..7
RangeInputs ==
    {<< <<-1, 4>>, <<3, 4>> >>, << <<8, 0>>, <<7, 0>> >>,
     << <<6, -1>>, <<5, 0>> >>, << <<1, 8>>, <<2, 7>> >>,
     << <<6, 4>>, <<-1, 4>> >>, << <<6, 4>>, <<5, 8>> >>,
     << <<1, 4>>, <<8, 4>> >>, << <<7, 4>>, <<7, -1>> >>,
     << <<-1, -1>>, <<8, 8>> >>}

MovePieceOffBoard ==
    /\ remaining > 0
    /\ \E in \in RangeInputs : movePiece(in[1][1], in[1][2], in[2][1], in[2][2])

NextRange == MovePiece \/ CompletePromotion \/ undoMove \/ MovePieceOffBoard

SpecRange == Init /\ [][NextRange]_vars

-----------------------------------------------------------------------------
(* The search interrupted.  Nothing in chooseMove's try block throws on a  *)
(* well-formed engine, so the exception is brought in from outside: it is  *)
(* raised either before the first makeMove or inside the search of a root  *)
(* move, between that move's makeMove and its undoMove.  The catch block   *)
(* then runs on the engine as the search has left it.                      *)

\* the engine at the moment of the throw
EnginesAtThrow(e, allMoves) ==
    {e} \cup {aiMakeMove(e, allMoves[i]).engine : i \in 1..Len(allMoves)}

\* chooseMove when its search throws: the catch block returns getRandomMove
chooseMoveCatches(color) ==
    /\ remaining > 0
    /\ remaining' = remaining - 1
    /\ result' = "chooseMove"
    /\ ~bypasses(sabotaged, sabotageMoves)
    /\ bypassLog' = Append(bypassLog, FALSE)
    /\ UNCHANGED <<moveHistory, capturedPieces, gameOver, promotingPawn, played,
                   difficulty, sabotaged, sabotageMoves, sabotageArg, botVars, gameVars, searchVars,
                                integrationVars>>
    /\ \E allMoves \in {getAllPossibleMoves(this, color)} :
          /\ Len(allMoves) > 0
          /\ \E left \in EnginesAtThrow(this, allMoves) :
                \E move \in getRandomMove(left, color) :
                   chooseMoveReturns(left, move, Path("caught", color, 0, 0, 0, <<>>))

ChooseMoveCatches == \E color \in {"white", "black"} : chooseMoveCatches(color)

NextFault == ChooseMove \/ Sabotage \/ ChooseMoveCatches

SpecFault == InitAI /\ [][NextFault]_vars

-----------------------------------------------------------------------------
(* Properties of the computer opponent *)

\* a step in which chooseMove is called and returns
ChooseMoveReturned == result' = "chooseMove" /\ remaining' = remaining - 1

\* C12: when chooseMove returns, at any difficulty, the engine's board (type,
\* colour and hasMoved of every square), turn, check flag, lastMove,
\* moveHistory and capturedPieces are what they were before the call.
C12_ChooseMoveRestoresEngine ==
    [][ChooseMoveReturned =>
          /\ board' = board
          /\ turn' = turn
          /\ check' = check
          /\ lastMove' = lastMove
          /\ moveHistory' = moveHistory
          /\ capturedPieces' = capturedPieces]_vars

\* a search of two plies or more has returned a move of a piece that has
\* never moved in the game
C12_Witness ==
    /\ result = "chooseMove"
    /\ trace.branch \in {"minimax", "timed"}
    /\ trace.depth >= 2
    /\ chosen # NoChoice
    /\ board[chosen.from[1]][chosen.from[2]].hasMoved = FALSE

\* C13: chooseMove returns null exactly when getAllPossibleMoves(engine,
\* color) is empty; otherwise, at every difficulty and in sabotage mode, the
\* move returned is one calculatePossibleMoves offers at the time of the call
\* for a piece of that colour.
C13_NullIffNoMoves ==
    [][ChooseMoveReturned =>
          /\ (chosen' = NoChoice) <=> (getAllPossibleMoves(this, trace'.color) = <<>>)
          /\ chosen' # NoChoice =>
                /\ board[chosen'.from[1]][chosen'.from[2]].color = trace'.color
                /\ chosen'.to \in calculatePossibleMoves(board, turn, lastMove,
                                                         chosen'.from[1], chosen'.from[2])]_vars

\* the opponent of difficulty 3 has made its rare mistake in a position with
\* more than three moves
C13_Witness ==
    /\ result = "chooseMove"
    /\ trace.branch = "suboptimal"
    /\ chosen # NoChoice
    /\ Len(getAllPossibleMoves(this, trace.color)) > 3

\* C14: after sabotage(N) exactly the next N chooseMove calls bypass the
\* search and return a random legal move (null if there is none); every later
\* call searches again until sabotage is called anew; sabotageMoves is never
\* negative.
C14_SabotageCountsDown ==
    /\ sabotageMoves >= 0
    /\ \A i \in 1..Len(bypassLog) : bypassLog[i] = (sabotaged /\ i <= sabotageArg)
    /\ sabotaged => sabotageMoves = Max(sabotageArg - Len(bypassLog), 0)
    /\ (result = "chooseMove" /\ bypassLog # <<>>) =>
          (bypassLog[Len(bypassLog)] <=> trace.branch = "bypass")
    /\ trace.branch = "bypass" =>
          IF getAllPossibleMoves(this, trace.color) = <<>> THEN chosen = NoChoice
          ELSE /\ chosen # NoChoice
               /\ chosen.to \in calculatePossibleMoves(board, turn, lastMove,
                                                       chosen.from[1], chosen.from[2])

\* sabotage(1), one call that bypassed the search, one call that searched
C14_Witness ==
    /\ sabotaged
    /\ sabotageArg = 1
    /\ bypassLog = <<TRUE, FALSE>>
    /\ trace.branch \in {"minimax", "random"}

\* C15: if the search inside chooseMove throws, chooseMove returns a random
\* legal move for the colour: the caller receives a move whenever the colour
\* has a legal move.
C15_FallbackFindsMove ==
    [][(ChooseMoveReturned /\ trace'.branch = "caught"
        /\ getAllPossibleMoves(this, trace'.color) # <<>>) =>
          /\ chosen' # NoChoice
          /\ chosen'.to \in calculatePossibleMoves(board, turn, lastMove,
                                                   chosen'.from[1], chosen'.from[2])]_vars

\* C16: getBestMoveWithTime runs complete fixed-depth searches at depths 1,
\* 2, 3, ... in this order, one per iteration and none beyond depth 6, starts
\* no iteration once the clock has reached the limit, and returns the best
\* move of the last iteration that ran.
C16_IterativeDeepening ==
    trace.branch \in {"timed", "timedRandom"} =>
       /\ \A i \in 1..Len(trace.iterations) : trace.iterations[i].depth = i
       /\ Len(trace.iterations) <= 6
       /\ Len(trace.iterations) = Min(trace.ticks, 6)
       /\ trace.branch = "timedRandom" => trace.iterations = <<>>
       /\ trace.branch = "timed" =>
             /\ chosen = trace.iterations[Len(trace.iterations)].move
             /\ \E shuffled \in Shuffles(getAllPossibleMoves(this, trace.color)) :
                   chosen = getBestMoveMinMax(this, trace.color,
                                              Len(trace.iterations), shuffled).move

\* the clock would have allowed a seventh iteration; the move returned is
\* that of depth 6 and differs from the one depth 1 found
C16_Witness ==
    /\ trace.branch = "timed"
    /\ trace.ticks = 7
    /\ Len(trace.iterations) = 6
    /\ chosen # trace.iterations[1].move

\* C17: at difficulty 4 two chooseMove calls on the same engine state and
\* colour select moves of the same search score, whatever order the root
\* moves are shuffled into; the moves differ only when they score the same.
C17_SameScoreUnderShuffles ==
    (result = "chooseMove" /\ difficulty = 4 /\ trace.branch = "minimax") =>
       \A shuffled \in Shuffles(getAllPossibleMoves(this, trace.color)) :
          \A other \in {getBestMoveMinMax(this, trace.color, 4, shuffled)} :
             /\ other.score = trace.score
             /\ rootScore(this, trace.color, 4, other.move)
                = rootScore(this, trace.color, 4, chosen)

\* a call at difficulty 4 whose move another order of the root moves would
\* not have selected
C17_Witness ==
    /\ result = "chooseMove"
    /\ difficulty = 4
    /\ trace.branch = "minimax"
    /\ \E shuffled \in Shuffles(getAllPossibleMoves(this, trace.color)) :
          getBestMoveMinMax(this, trace.color, 4, shuffled).move # chosen

\* the fixed values of the pieces of the colour on the board, added up
MaterialOf(b, color) ==
    pieceValues.pawn * CountOn(b, "pawn", color)
    + pieceValues.knight * CountOn(b, "knight", color)
    + pieceValues.bishop * CountOn(b, "bishop", color)
    + pieceValues.rook * CountOn(b, "rook", color)
    + pieceValues.queen * CountOn(b, "queen", color)
    + pieceValues.king * CountOn(b, "king", color)

\* the start position after e2-e4, e7-e5
OpenGame ==
    /\ Len(moveHistory) = 2
    /\ moveHistory[1].boardState = setupBoard
    /\ moveHistory[1].from = <<6, 4>> /\ moveHistory[1].to = <<4, 4>>
    /\ moveHistory[2].from = <<1, 4>> /\ moveHistory[2].to = <<3, 4>>
    /\ result = "valid"

\* movePiece has just captured a pawn, on the destination square or en passant
PawnJustCaptured ==
    /\ result \in Accepted
    /\ lastMove # NoMove
    /\ \/ lastMove.captured.type = "pawn"
       \/ isEnPassant(lastMove.boardState, lastMove.from[1], lastMove.from[2],
                      lastMove.to[1], lastMove.to[2])

\* C18: evaluateMaterial(engine, color) is the sum of the fixed piece values
\* of color minus that of the opponent; it is 0 after e2-e4, e7-e5 from the
\* start position; the capture of one pawn, ordinary or en passant, changes
\* it by +100 for the capturing colour and by -100 for the other.
C18_MaterialBalance ==
    /\ \A color \in {"white", "black"} :
          evaluateMaterial(board, color)
          = MaterialOf(board, color) - MaterialOf(board, Other(color))
    /\ OpenGame => \A color \in {"white", "black"} : evaluateMaterial(board, color) = 0
    /\ PawnJustCaptured =>
          /\ evaluateMaterial(board, lastMove.piece.color)
             = evaluateMaterial(lastMove.boardState, lastMove.piece.color) + 100
          /\ evaluateMaterial(board, Other(lastMove.piece.color))
             = evaluateMaterial(lastMove.boardState, Other(lastMove.piece.color)) - 100

\* a pawn has just been captured en passant
C18_Witness ==
    /\ result = "valid"
    /\ lastMove # NoMove
    /\ isEnPassant(lastMove.boardState, lastMove.from[1], lastMove.from[2],
                   lastMove.to[1], lastMove.to[2])
    /\ evaluateMaterial(board, lastMove.piece.color)
       = evaluateMaterial(lastMove.boardState, lastMove.piece.color) + 100

\* C19: in every reachable state with no promotion pending, a fresh engine
\* that executes importState(exportState()) has the same board, turn,
\* lastMove and moveHistory, the same check and gameOver flags, and offers
\* the same destinations for every square.
C19_SnapshotRoundTrip ==
    promotingPawn = NoSquare =>
       \A fresh \in {importState(exportState(this))} :
          /\ fresh.board = board
          /\ fresh.turn = turn
          /\ fresh.lastMove = lastMove
          /\ fresh.moveHistory = moveHistory
          /\ fresh.check = check
          /\ fresh.gameOver = gameOver
          /\ \A s \in Squares :
                calculatePossibleMoves(fresh.board, fresh.turn, fresh.lastMove, s[1], s[2])
                = calculatePossibleMoves(board, turn, lastMove, s[1], s[2])

\* C20: movePiece never raises for illegal input: for any integer
\* coordinates, a row or a column outside 0..7 included, for the origin or
\* the destination, it returns 'invalid' and leaves the state unchanged.
C20_OffBoardIsInvalid ==
    [][\A in \in RangeInputs :
          movePiece(in[1][1], in[1][2], in[2][1], in[2][2]) =>
             (result' = "invalid" /\ UNCHANGED engineVars)]_vars

-----------------------------------------------------------------------------
(* Properties of the engine on malformed and promoting positions *)

\* C23: when the board holds no king of the queried colour, isKingInCheck
\* fails loudly: it does not return an ordinary boolean.
C23_KinglessCheckFailsLoudly ==
    \A color \in {"white", "black"} :
        findKing(board, color) = NoSquare => isKingInCheck(board, color) \notin BOOLEAN

\* C24: at rest after movePiece, completePromotion or undoMove the check flag
\* says whether the king of the side to move is attacked on the current
\* board, and gameOver says whether the side to move has no legal move.
C24_FlagsMatchBoard ==
    result \in Accepted \cup {"promoted", "undoTrue"} =>
        /\ check = isKingInCheck(board, turn)
        /\ gameOver = hasNoLegalMoves(board, turn, lastMove)

\* C25: completePromotion changes a square only if that square held a pawn on
\* its last rank; the replacement has the pawn's colour and one of the four
\* promotion types, and no other square changes.  With no promotion pending
\* it changes nothing.
C25_PromotionReplacesOnlyThePawn ==
    [][/\ result' = "noPromotion" => board' = board
       /\ result' = "promoted" =>
             LET row == promotingPawn[1]
                 col == promotingPawn[2]
                 old == board[row][col]
                 new == board'[row][col]
             IN  /\ old.type = "pawn"
                 /\ (old.color = "white" /\ row = 0) \/ (old.color = "black" /\ row = 7)
                 /\ new.color = old.color
                 /\ new.type \in PromotionTypes
                 /\ \A s \in Squares \ {promotingPawn} :
                       board'[s[1]][s[2]] = board[s[1]][s[2]]]_vars

-----------------------------------------------------------------------------
(* The search against a minimax that scores every leaf for White *)

\* the largest (for the maximiser) or smallest value of a non-empty set
BestOf(values, isMaximizing) ==
    CHOOSE v \in values :
        \A w \in values : IF isMaximizing THEN v >= w ELSE v <= w

RECURSIVE whiteMinimax(_, _, _)
\* the minimax value of the position to the given depth, White maximising and
\* Black minimising, every leaf scored by evaluatePosition(engine, 'white');
\* a side without a move gets the value the loops of minimax start from
whiteMinimax(e, depth, isMaximizing) ==
    IF depth = 0 \/ e.gameOver THEN evaluatePosition(e, "white")
    ELSE Bind(getAllPossibleMoves(e, IF isMaximizing THEN "white" ELSE "black"),
              LAMBDA allMoves :
                  IF allMoves = <<>>
                  THEN IF isMaximizing THEN -Infinity ELSE Infinity
                  ELSE BestOf({whiteMinimax(aiMakeMove(e, allMoves[i]).engine,
                                            depth - 1, ~isMaximizing)
                               : i \in 1..Len(allMoves)}, isMaximizing))

\* the value of a root move of the colour in a search of the given depth
whiteValueOfMove(e, color, depth, move) ==
    whiteMinimax(aiMakeMove(e, move).engine, depth - 1, color # "white")

\* C29: White is the maximiser, Black the minimiser and every leaf is scored
\* from White's point of view: the move getBestMoveMinMax(engine, color, d)
\* returns has the best depth-d minimax value available to color.
C29_BestMoveIsMinimaxOptimal ==
    (result = "chooseMove" /\ trace.branch = "minimax" /\ chosen # NoChoice) =>
       \A allMoves \in {getAllPossibleMoves(this, trace.color)} :
          whiteValueOfMove(this, trace.color, trace.depth, chosen)
          = BestOf({whiteValueOfMove(this, trace.color, trace.depth, allMoves[i])
                    : i \in 1..Len(allMoves)}, trace.color = "white")

-----------------------------------------------------------------------------
(* ChessEngine of app/chess-engine.js, the engine of the bot-vs-bot games. *)
(* Its operators take the engine as the record e of its fields.  A move of *)
(* a generator is { row, col } with the castling and enPassant marks, the  *)
(* arrays are sequences in the order of the pushes.                        *)

isValidPosition(row, col) == row >= 0 /\ row < 8 /\ col >= 0 /\ col < 8

\* { row, col } without a mark
Target(row, col) == [row |-> row, col |-> col, castling |-> "none", enPassant |-> FALSE]

\* !this.board[row][col], a column off the board reading undefined
Vacant(b, row, col) == ~isValidPosition(row, col) \/ ~Occupied(b, row, col)

getPawnMoves(e, row, col, color) ==
    LET direction == IF color = "white" THEN -1 ELSE 1
        startRow == IF color = "white" THEN 6 ELSE 1
        forward ==
            IF isValidPosition(row + direction, col) /\ ~Occupied(e.board, row + direction, col)
            THEN <<Target(row + direction, col)>>
                 \o (IF row = startRow /\ ~Occupied(e.board, row + 2 * direction, col)
                     THEN <<Target(row + 2 * direction, col)>> ELSE <<>>)
            ELSE <<>>
        capture(colOffset) ==
            LET newRow == row + direction
                newCol == col + colOffset
            IN  IF isValidPosition(newRow, newCol)
                THEN (IF Occupied(e.board, newRow, newCol)
                         /\ e.board[newRow][newCol].color # color
                      THEN <<Target(newRow, newCol)>> ELSE <<>>)
                     \o (IF e.enPassantTarget = <<newRow, newCol>>
                         THEN <<[Target(newRow, newCol) EXCEPT !.enPassant = TRUE]>>
                         ELSE <<>>)
                ELSE <<>>
    IN  forward \o capture(-1) \o capture(1)

\* the inner loop of getRookMoves and getBishopMoves for one direction
slideMoves(b, row, col, color, rowDir, colDir) ==
    LET pushed(i) ==
            /\ isValidPosition(row + rowDir * i, col + colDir * i)
            /\ \A j \in 1..(i - 1) : ~Occupied(b, row + rowDir * j, col + colDir * j)
            /\ b[row + rowDir * i][col + colDir * i].color # color
    IN  [i \in 1..Cardinality({k \in 1..7 : pushed(k)})
            |-> Target(row + rowDir * i, col + colDir * i)]

getRookMoves(e, row, col, color) ==
    slideMoves(e.board, row, col, color, 0, 1) \o slideMoves(e.board, row, col, color, 0, -1)
    \o slideMoves(e.board, row, col, color, 1, 0) \o slideMoves(e.board, row, col, color, -1, 0)

getBishopMoves(e, row, col, color) ==
    slideMoves(e.board, row, col, color, 1, 1) \o slideMoves(e.board, row, col, color, 1, -1)
    \o slideMoves(e.board, row, col, color, -1, 1) \o slideMoves(e.board, row, col, color, -1, -1)

getQueenMoves(e, row, col, color) ==
    getRookMoves(e, row, col, color) \o getBishopMoves(e, row, col, color)

\* the loop over the offsets of a knight or a king
stepMoves(b, row, col, color, offsets) ==
    LET valid == SelectSeq(offsetTargets(row, col, offsets),
                           LAMBDA s : isValidPosition(s[1], s[2])
                                      /\ b[s[1]][s[2]].color # color)
    IN  [k \in 1..Len(valid) |-> Target(valid[k][1], valid[k][2])]

getKnightMoves(e, row, col, color) == stepMoves(e.board, row, col, color, KnightOffsetSeq)

botFindKing(e, color) == findKing(e.board, color)

getPossibleMovesIgnoreCheck(e, row, col) ==
    LET piece == e.board[row][col]
    IN  CASE piece.type = "pawn" -> getPawnMoves(e, row, col, piece.color)
          [] piece.type = "rook" -> getRookMoves(e, row, col, piece.color)
          [] piece.type = "knight" -> getKnightMoves(e, row, col, piece.color)
          [] piece.type = "bishop" -> getBishopMoves(e, row, col, piece.color)
          [] piece.type = "queen" -> getQueenMoves(e, row, col, piece.color)
          [] piece.type = "king" -> stepMoves(e.board, row, col, piece.color, KingOffsetSeq)
          [] OTHER -> <<>>

isInCheck(e, color) ==
    LET kingPos == botFindKing(e, color)
    IN  IF kingPos = NoSquare THEN FALSE
        ELSE \E s \in Squares :
                /\ e.board[s[1]][s[2]].color = Other(color)
                /\ Bind(getPossibleMovesIgnoreCheck(e, s[1], s[2]), LAMBDA moves :
                        \E k \in 1..Len(moves) :
                           moves[k].row = kingPos[1] /\ moves[k].col = kingPos[2])

getKingMoves(e, row, col, color) ==
    stepMoves(e.board, row, col, color, KingOffsetSeq)
    \o (IF ~e.board[row][col].hasMoved /\ ~isInCheck(e, color)
        THEN (IF /\ e.castlingRights[color].kingside
                 /\ Vacant(e.board, row, col + 1) /\ Vacant(e.board, row, col + 2)
                 /\ e.board[row][7].type = "rook" /\ ~e.board[row][7].hasMoved
              THEN <<[Target(row, col + 2) EXCEPT !.castling = "kingside"]>> ELSE <<>>)
             \o (IF /\ e.castlingRights[color].queenside
                    /\ Vacant(e.board, row, col - 1) /\ Vacant(e.board, row, col - 2)
                    /\ Vacant(e.board, row, col - 3)
                    /\ e.board[row][0].type = "rook" /\ ~e.board[row][0].hasMoved
                 THEN <<[Target(row, col - 2) EXCEPT !.castling = "queenside"]>> ELSE <<>>)
        ELSE <<>>)

\* the temporary move: the moving piece alone is relocated
botWouldBeInCheck(e, fromRow, fromCol, toRow, toCol, color) ==
    isInCheck([e EXCEPT !.board = [e.board EXCEPT ![toRow][toCol] = e.board[fromRow][fromCol],
                                                  ![fromRow][fromCol] = NoPiece]], color)

getPossibleMoves(e, row, col) ==
    LET piece == e.board[row][col]
    IN  IF piece = NoPiece \/ piece.color # e.currentPlayer THEN <<>>
        ELSE SelectSeq(IF piece.type = "king" THEN getKingMoves(e, row, col, piece.color)
                       ELSE getPossibleMovesIgnoreCheck(e, row, col),
                       LAMBDA move : ~botWouldBeInCheck(e, row, col, move.row, move.col,
                                                        piece.color))

getAllLegalMoves(e, color) ==
    Bind([i \in 1..64 |->
             LET row == SquareAt(i)[1]
                 col == SquareAt(i)[2]
                 piece == e.board[row][col]
             IN  IF piece.color = color
                 THEN Bind(getPossibleMoves(e, row, col), LAMBDA pieceMoves :
                          [k \in 1..Len(pieceMoves) |->
                              [from |-> <<row, col>>,
                               to |-> <<pieceMoves[k].row, pieceMoves[k].col>>,
                               piece |-> piece.type,
                               capture |-> Occupied(e.board, pieceMoves[k].row,
                                                    pieceMoves[k].col),
                               castling |-> pieceMoves[k].castling,
                               enPassant |-> pieceMoves[k].enPassant]])
                 ELSE <<>>],
         LAMBDA moves : Flatten(moves, 1, 64))

checkGameEnd(e) ==
    IF Len(getAllLegalMoves(e, e.currentPlayer)) = 0
    THEN [e EXCEPT !.gameOver = TRUE,
                   !.winner = IF isInCheck(e, e.currentPlayer)
                              THEN Other(e.currentPlayer) ELSE "none"]
    ELSE e

\* [accepted, engine]: what makeMove returns and the engine as it leaves it
makeMove(e, fromRow, fromCol, toRow, toCol) ==
    LET piece == e.board[fromRow][fromCol]
        found == SelectSeq(getPossibleMoves(e, fromRow, fromCol),
                           LAMBDA m : m.row = toRow /\ m.col = toCol)
    IN  IF piece = NoPiece \/ piece.color # e.currentPlayer \/ found = <<>>
        THEN [accepted |-> FALSE, engine |-> e]
        ELSE LET move == found[1]
                 capturedPiece == e.board[toRow][toCol]
                 taken == IF move.enPassant
                          THEN [e.board EXCEPT
                                   ![toRow + (IF piece.color = "white" THEN 1 ELSE -1)][toCol]
                                       = NoPiece]
                          ELSE e.board
                 castled == IF move.castling = "kingside"
                            THEN [taken EXCEPT ![fromRow][5] = [taken[fromRow][7]
                                                                   EXCEPT !.hasMoved = TRUE],
                                               ![fromRow][7] = NoPiece]
                            ELSE IF move.castling = "queenside"
                            THEN [taken EXCEPT ![fromRow][3] = [taken[fromRow][0]
                                                                   EXCEPT !.hasMoved = TRUE],
                                               ![fromRow][0] = NoPiece]
                            ELSE taken
                 moved == [castled EXCEPT ![toRow][toCol] = [piece EXCEPT !.hasMoved = TRUE],
                                          ![fromRow][fromCol] = NoPiece]
                 rights == e.castlingRights[piece.color]
                 newRights ==
                     IF piece.type = "king"
                     THEN [kingside |-> FALSE, queenside |-> FALSE]
                     ELSE IF piece.type = "rook"
                     THEN [kingside |-> rights.kingside /\ fromCol # 7,
                           queenside |-> rights.queenside /\ fromCol # 0]
                     ELSE rights
             IN  [accepted |-> TRUE,
                  engine |->
                      checkGameEnd(
                          [board |-> moved,
                           currentPlayer |-> Other(e.currentPlayer),
                           moveHistory |->
                               Append(e.moveHistory,
                                      [from |-> <<fromRow, fromCol>>, to |-> <<toRow, toCol>>,
                                       piece |-> piece.type, captured |-> capturedPiece,
                                       castling |-> move.castling,
                                       enPassant |-> move.enPassant]),
                           gameOver |-> e.gameOver,
                           winner |-> e.winner,
                           enPassantTarget |->
                               IF piece.type = "pawn" /\ Abs(toRow - fromRow) = 2
                               THEN <<(fromRow + toRow) \div 2, toCol>> ELSE NoSquare,
                           castlingRights |->
                               [e.castlingRights EXCEPT ![piece.color] = newRights]])]

\* the copy clone returns: the history is not copied
clone(e) == [e EXCEPT !.moveHistory = <<>>]

-----------------------------------------------------------------------------
(* The bot-vs-bot engine as a state machine *)

\* calls made on the freshly constructed bot-vs-bot engine
BotStartCalls == 2

\* calls made on a bot-vs-bot engine that starts from a mid-game position
BotCalls == 2

\* the engine's fields
thisBot == [board |-> board, currentPlayer |-> currentPlayer,
            moveHistory |-> moveHistory, gameOver |-> gameOver, winner |-> winner,
            enPassantTarget |-> enPassantTarget, castlingRights |-> castlingRights]

\* the rights an engine holds that has reached the board by play in which
\* no rook was captured on its home square
rightsOn(b) ==
    [color \in {"white", "black"} |->
        LET row == IF color = "white" THEN 7 ELSE 0
            home(col, type) == b[row][col] = P(type, color, FALSE)
        IN  [kingside |-> home(4, "king") /\ home(7, "rook"),
             queenside |-> home(4, "king") /\ home(0, "rook")]]

\* White to move.  White Ke1, Ra1, Rh1 (unmoved), pawn a2; Black Kb8,
\* Rd8, Rf8: the black rooks hold the d-file and the f-file.
CastlingAcross ==
    [board |-> Place({<< <<7, 4>>, P("king", "white", FALSE) >>,
                      << <<7, 0>>, P("rook", "white", FALSE) >>,
                      << <<7, 7>>, P("rook", "white", FALSE) >>,
                      << <<6, 0>>, P("pawn", "white", FALSE) >>,
                      << <<0, 1>>, P("king", "black", TRUE) >>,
                      << <<0, 3>>, P("rook", "black", TRUE) >>,
                      << <<0, 5>>, P("rook", "black", TRUE) >>}),
     turn |-> "white"]

\* White to move.  White Ke1, Rh1 (unmoved); Black Ka8, Rg8: the black rook
\* holds the g-file, where the king would land.
CastlingInto ==
    [board |-> Place({<< <<7, 4>>, P("king", "white", FALSE) >>,
                      << <<7, 7>>, P("rook", "white", FALSE) >>,
                      << <<0, 0>>, P("king", "black", TRUE) >>,
                      << <<0, 6>>, P("rook", "black", TRUE) >>}),
     turn |-> "white"]

\* White to move.  White Ke1 and Ra1 (unmoved), the rook from h1 on a3 by
\* way of h3, pawn h2; Black Kh8, pawn h7.
RookLift ==
    [board |-> Place({<< <<7, 4>>, P("king", "white", FALSE) >>,
                      << <<7, 0>>, P("rook", "white", FALSE) >>,
                      << <<5, 0>>, P("rook", "white", TRUE) >>,
                      << <<6, 7>>, P("pawn", "white", FALSE) >>,
                      << <<0, 7>>, P("king", "black", TRUE) >>,
                      << <<1, 7>>, P("pawn", "black", FALSE) >>}),
     turn |-> "white"]

BotPositions == {CastlingAcross, CastlingInto, Promotion, EnPassantPin, RookLift}

\* the engine holds the position, as a clone of an engine that has reached
\* it by play does
InitBotEngine(b, player, calls) ==
    /\ board = b
    /\ currentPlayer = player
    /\ moveHistory = <<>>
    /\ gameOver = FALSE
    /\ winner = "none"
    /\ enPassantTarget = NoSquare
    /\ castlingRights = rightsOn(b)
    /\ result = "none"
    /\ remaining = calls
    \* the fields of the other classes
    /\ turn = "white"
    /\ capturedPieces = [white |-> <<>>, black |-> <<>>]
    /\ check = FALSE
    /\ lastMove = NoMove
    /\ promotingPawn = NoSquare
    /\ played = <<>>
    /\ InitSystem(3)
    /\ InitGameFields
    /\ InitSearchFields
    /\ InitIntegrationFields

InitBot ==
    \/ InitBotEngine(setupBoard, "white", BotStartCalls)
    \/ \E p \in BotPositions : InitBotEngine(p.board, p.turn, BotCalls)

\* the engine is left as e
botEngineBecomes(e) ==
    /\ board' = e.board
    /\ currentPlayer' = e.currentPlayer
    /\ moveHistory' = e.moveHistory
    /\ gameOver' = e.gameOver
    /\ winner' = e.winner
    /\ enPassantTarget' = e.enPassantTarget
    /\ castlingRights' = e.castlingRights

\* a call of makeMove and what it returns
MakeMove(fromRow, fromCol, toRow, toCol) ==
    /\ remaining > 0
    /\ remaining' = remaining - 1
    /\ \E made \in {makeMove(thisBot, fromRow, fromCol, toRow, toCol)} :
          /\ botEngineBecomes(made.engine)
          /\ result' = IF made.accepted THEN "accepted" ELSE "rejected"
    /\ UNCHANGED <<turn, capturedPieces, check, lastMove, promotingPawn, played,
                   aiVars, gameVars, searchVars,
                                integrationVars>>

\* the moves getAllLegalMoves offers the player to move, as makeMove arguments
BotOffered ==
    Bind(getAllLegalMoves(thisBot, currentPlayer), LAMBDA moves :
        {<<moves[k].from, moves[k].to>> : k \in 1..Len(moves)})

\* every offered move, and e2-e5, e7-e5, Ke1-e3 besides
BotMakeMove ==
    /\ remaining > 0
    /\ \E in \in BotOffered \cup {<< <<6, 4>>, <<3, 4>> >>, << <<1, 4>>, <<3, 4>> >>,
                                  << <<7, 4>>, <<5, 4>> >>} :
          MakeMove(in[1][1], in[1][2], in[2][1], in[2][2])

NextBot == BotMakeMove

SpecBot == InitBot /\ [][NextBot]_vars

-----------------------------------------------------------------------------
(* Properties of the bot-vs-bot engine *)

\* a piece of the colour on the square attacks the target square: a pawn
\* diagonally forwards, knight and king by their steps, rook, bishop and
\* queen along a line with nothing in between
Attacks(b, from, to, color) ==
    LET piece == b[from[1]][from[2]]
        dr == to[1] - from[1]
        dc == to[2] - from[2]
        clear == \A k \in 1..(Max(Abs(dr), Abs(dc)) - 1) :
                     ~Occupied(b, from[1] + k * Sign(dr), from[2] + k * Sign(dc))
        straight == (dr = 0 \/ dc = 0) /\ from # to
        diagonal == Abs(dr) = Abs(dc) /\ from # to
    IN  /\ piece.color = color
        /\ CASE piece.type = "pawn" ->
                    dr = (IF color = "white" THEN -1 ELSE 1) /\ Abs(dc) = 1
             [] piece.type = "knight" -> {Abs(dr), Abs(dc)} = {1, 2}
             [] piece.type = "king" -> Max(Abs(dr), Abs(dc)) = 1
             [] piece.type = "rook" -> straight /\ clear
             [] piece.type = "bishop" -> diagonal /\ clear
             [] piece.type = "queen" -> (straight \/ diagonal) /\ clear
             [] OTHER -> FALSE

AttackedBy(b, square, color) == \E from \in Squares : Attacks(b, from, square, color)

\* the castling moves getPossibleMoves offers the player to move
BotCastlings ==
    {m \in UNION {{[from |-> s, move |-> getPossibleMoves(thisBot, s[1], s[2])[k]]
                   : k \in 1..Len(getPossibleMoves(thisBot, s[1], s[2]))}
                  : s \in {<<0, 4>>, <<7, 4>>}} :
        m.move.castling # "none"}

\* C21: getPossibleMoves offers no castling move whose crossed square (f-file
\* kingside, d-file queenside) or landing square is attacked by a piece of
\* the opponent.
C21_NoCastlingThroughAttack ==
    \A m \in BotCastlings :
        LET row == m.from[1]
            crossed == <<row, IF m.move.castling = "kingside" THEN 5 ELSE 3>>
            landing == <<m.move.row, m.move.col>>
        IN  /\ ~AttackedBy(board, crossed, Other(currentPlayer))
            /\ ~AttackedBy(board, landing, Other(currentPlayer))

\* C22: after an accepted makeMove no white pawn stands on row 0 and no black
\* pawn on row 7.
C22_PawnOnLastRankPromoted ==
    result = "accepted" =>
        \A col \in Rows :
            /\ ~(board[0][col].type = "pawn" /\ board[0][col].color = "white")
            /\ ~(board[7][col].type = "pawn" /\ board[7][col].color = "black")

-----------------------------------------------------------------------------
(* ChessBot (src/unnamed/part_006), the player of the bot-vs-bot games,    *)
(* with the 'balanced' personality.  evaluatePositionalFactors divides by  *)
(* ten; every score is held here multiplied by ten, as an integer.         *)

\* the values of evaluateMaterial
botPieceValues == [pawn |-> 100, knight |-> 320, bishop |-> 330, rook |-> 500,
                   queen |-> 900, king |-> 0]

botEvaluateMaterial(e) ==
    SumSeq([i \in 1..64 |->
               LET piece == e.board[SquareAt(i)[1]][SquareAt(i)[2]]
               IN  IF piece = NoPiece THEN 0
                   ELSE IF piece.color = "white" THEN botPieceValues[piece.type]
                   ELSE -botPieceValues[piece.type]], 1, 64)

\* ten times what evaluatePositionalFactors returns; its pawn table has the
\* entries of pawnTable
evaluatePositionalFactors(e) ==
    SumSeq([i \in 1..64 |->
               LET row == SquareAt(i)[1]
                   col == SquareAt(i)[2]
                   piece == e.board[row][col]
                   tableRow == IF piece.color = "white" THEN 7 - row ELSE row
                   bonus == pawnTable[tableRow + 1][col + 1]
               IN  IF piece.type = "pawn"
                   THEN IF piece.color = "white" THEN bonus ELSE -bonus
                   ELSE 0], 1, 64)
    + SumSeq([i \in 1..4 |->
                 LET piece == e.board[3 + ((i - 1) \div 2)][3 + ((i - 1) % 2)]
                 IN  IF piece = NoPiece THEN 0
                     ELSE IF piece.color = "white" THEN 20 ELSE -20], 1, 4)

botEvaluateKingSafety(e) ==
    (IF botFindKing(e, "white") # NoSquare /\ isInCheck(e, "white") THEN -50 ELSE 0)
    + (IF botFindKing(e, "black") # NoSquare /\ isInCheck(e, "black") THEN 50 ELSE 0)

botEvaluateMobility(e) ==
    (Len(getAllLegalMoves(e, "white")) - Len(getAllLegalMoves(e, "black"))) * 2

\* ten times what ChessBot.evaluatePosition returns
botEvaluatePosition(e) ==
    IF e.gameOver
    THEN IF e.winner = "white" THEN 100000
         ELSE IF e.winner = "black" THEN -100000
         ELSE 0
    ELSE 10 * botEvaluateMaterial(e) + evaluatePositionalFactors(e)
         + 10 * botEvaluateKingSafety(e) + 10 * botEvaluateMobility(e)

RECURSIVE botMinimax(_, _, _, _, _)
RECURSIVE botMinimaxLoop(_, _, _, _, _, _, _)

\* one pass through the body of a for loop of ChessBot.minimax
botMinimaxStep(acc, e, move, depth, maximizingPlayer) ==
    IF acc.broken THEN acc
    ELSE Bind(makeMove(clone(e), move.from[1], move.from[2], move.to[1], move.to[2]).engine,
              LAMBDA testEngine :
         Bind(botMinimax(testEngine, depth - 1, acc.alpha, acc.beta, ~maximizingPlayer),
              LAMBDA found :
                  LET better == IF maximizingPlayer THEN found.score > acc.best
                                ELSE found.score < acc.best
                      newAlpha == IF maximizingPlayer THEN Max(acc.alpha, found.score)
                                  ELSE acc.alpha
                      newBeta == IF maximizingPlayer THEN acc.beta
                                 ELSE Min(acc.beta, found.score)
                  IN  [alpha |-> newAlpha,
                       beta |-> newBeta,
                       best |-> IF better THEN found.score ELSE acc.best,
                       bestMove |-> IF better THEN move ELSE acc.bestMove,
                       broken |-> newBeta <= newAlpha]))

\* a for loop of ChessBot.minimax over moves[lo..hi], in order
botMinimaxLoop(acc, e, moves, lo, hi, depth, maximizingPlayer) ==
    IF lo > hi THEN acc
    ELSE IF lo = hi THEN botMinimaxStep(acc, e, moves[lo], depth, maximizingPlayer)
    ELSE Bind(botMinimaxLoop(acc, e, moves, lo, (lo + hi) \div 2, depth, maximizingPlayer),
              LAMBDA first :
                  IF first.broken THEN first
                  ELSE botMinimaxLoop(first, e, moves, (lo + hi) \div 2 + 1, hi,
                                      depth, maximizingPlayer))

\* { score, move } as ChessBot.minimax returns it
botMinimax(e, depth, alpha, beta, maximizingPlayer) ==
    IF depth = 0 \/ e.gameOver
    THEN [score |-> botEvaluatePosition(e), move |-> NoChoice]
    ELSE Bind(getAllLegalMoves(e, e.currentPlayer), LAMBDA moves :
         Bind(botMinimaxLoop([alpha |-> alpha, beta |-> beta,
                              best |-> IF maximizingPlayer THEN -Infinity ELSE Infinity,
                              bestMove |-> NoChoice, broken |-> FALSE],
                             e, moves, 1, Len(moves), depth, maximizingPlayer),
              LAMBDA done : [score |-> done.best, move |-> done.bestMove]))

chooseBalancedMove(e, moves, depth) ==
    botMinimax(e, depth, -Infinity, Infinity, TRUE).move

\* the deepest search a bot is constructed with
BotDepth == 2

\* Black to move.  White Kh1, Na4; Black Kh8, Ra8: the rook may take the
\* knight.
KnightEnPrise ==
    [board |-> Place({<< <<7, 7>>, P("king", "white", TRUE) >>,
                      << <<4, 0>>, P("knight", "white", TRUE) >>,
                      << <<0, 7>>, P("king", "black", TRUE) >>,
                      << <<0, 0>>, P("rook", "black", TRUE) >>}),
     turn |-> "black"]

\* the engines the bots are handed
InitChessBot ==
    \E p \in {KnightEnPrise, Promotion, EnPassantPin} :
        InitBotEngine(p.board, p.turn, BotCalls)

\* chooseMove of a 'balanced' bot of the given depth at normal game speed,
\* from the end of its thinking delay on
ChooseBalancedMove ==
    /\ remaining > 0
    /\ remaining' = remaining - 1
    /\ result' = "chooseMove"
    /\ \E depth \in 1..BotDepth :
       \E moves \in {getAllLegalMoves(thisBot, currentPlayer)} :
          IF Len(moves) = 0
          THEN /\ chosen' = NoChoice
               /\ trace' = Path("empty", currentPlayer, 0, depth, 0, <<>>)
          ELSE /\ chosen' = chooseBalancedMove(thisBot, moves, depth)
               /\ trace' = Path("balanced", currentPlayer, 0, depth, 0, <<>>)
    /\ UNCHANGED <<engineVars, played, botVars, gameVars, searchVars, integrationVars,
                   difficulty, sabotaged, sabotageMoves, sabotageArg, bypassLog>>

NextChessBot == BotMakeMove \/ ChooseBalancedMove

SpecChessBot == InitChessBot /\ [][NextChessBot]_vars

RECURSIVE botValue(_, _)
\* the minimax value of the position to the given depth under
\* ChessBot.evaluatePosition, White to move maximising and Black to move
\* minimising; a side without a move gets the value the loops start from
botValue(e, depth) ==
    IF depth = 0 \/ e.gameOver THEN botEvaluatePosition(e)
    ELSE Bind(getAllLegalMoves(e, e.currentPlayer), LAMBDA moves :
             IF moves = <<>>
             THEN IF e.currentPlayer = "white" THEN -Infinity ELSE Infinity
             ELSE BestOf({botValue(makeMove(clone(e), moves[k].from[1], moves[k].from[2],
                                            moves[k].to[1], moves[k].to[2]).engine,
                                   depth - 1)
                          : k \in 1..Len(moves)}, e.currentPlayer = "white"))

\* the value of a move of the player to move in a search of the given depth
botValueOfMove(e, move, depth) ==
    botValue(makeMove(clone(e), move.from[1], move.from[2], move.to[1], move.to[2]).engine,
             depth - 1)

\* C30: chooseBalancedMove returns a move that is minimax-optimal for the
\* side to move under ChessBot.evaluatePosition: of the highest search score
\* when White is to move, of the lowest when Black is to move.
C30_BalancedMoveIsOptimal ==
    (result = "chooseMove" /\ trace.branch = "balanced") =>
       \A moves \in {getAllLegalMoves(thisBot, currentPlayer)} :
          /\ chosen # NoChoice
          /\ botValueOfMove(thisBot, chosen, trace.depth)
             = BestOf({botValueOfMove(thisBot, moves[k], trace.depth) : k \in 1..Len(moves)},
                      currentPlayer = "white")

-----------------------------------------------------------------------------
-----------------------------------------------------------------------------
(* ChessEngine of src/unnamed/part_005: the engine ChessGame drives.  Its  *)
(* fields are held in the variables of their names; its operations are     *)
(* written on a record e of the fields, as the code runs them on this.     *)
(* movePiece does not validate: it relocates whatever stands on the origin.*)

\* {...null}: the copy of a cell that holds nothing is an empty object
EmptyObject == [type |-> "undefined", color |-> "undefined", hasMoved |-> FALSE]

\* null in move.castling
NoCastling == <<>>

KingSteps == {d \in (-1..1) \X (-1..1) : d # <<0, 0>>}

\* the squares the piece on the square bears on
calculateRawMoves(b, row, col) ==
    LET piece == b[row][col]
        opponentColor == Other(piece.color)
        dir == IF piece.color = "white" THEN -1 ELSE 1
        rays(dirs) == UNION {addDirectionalMoves(b, row, col, d[1], d[2], opponentColor)
                             : d \in dirs}
        steps(offsets) == {<<row + d[1], col + d[2]>> : d \in offsets} \cap Squares
    IN  CASE piece.type = "pawn" -> steps({<<dir, -1>>, <<dir, 1>>})
          [] piece.type = "rook" -> rays(RookDirs)
          [] piece.type = "knight" -> steps(KnightOffsets)
          [] piece.type = "bishop" -> rays(BishopDirs)
          [] piece.type = "queen" -> rays(RookDirs \cup BishopDirs)
          [] piece.type = "king" -> steps(KingSteps)
          [] OTHER -> {}

\* row and col are undefined when the king was not found, and no move
\* reaches an undefined square
gameIsSquareAttacked(b, square, attackerColor) ==
    \E r \in Rows, c \in Rows :
        /\ b[r][c].color = attackerColor
        /\ square \in calculateRawMoves(b, r, c)

gameIsKingInCheck(b, color) ==
    gameIsSquareAttacked(b, findKing(b, color), Other(color))

\* the moves of the piece before the filter
gameRawCandidates(b, lm, row, col) ==
    LET piece == b[row][col]
        color == piece.color
        opponentColor == Other(color)
        dir == IF color = "white" THEN -1 ELSE 1
        rays(dirs) == UNION {addDirectionalMoves(b, row, col, d[1], d[2], opponentColor)
                             : d \in dirs}
        forward ==
            IF isInBounds(row + dir, col) /\ ~Occupied(b, row + dir, col)
            THEN {<<row + dir, col>>}
                 \cup (IF /\ ~piece.hasMoved
                          /\ isInBounds(row + 2 * dir, col)
                          /\ ~Occupied(b, row + 2 * dir, col)
                       THEN {<<row + 2 * dir, col>>} ELSE {})
            ELSE {}
        diagonal ==
            {s \in {<<row + dir, col - 1>>, <<row + dir, col + 1>>} \cap Squares :
                \/ b[s[1]][s[2]].color = opponentColor
                \/ /\ ~Occupied(b, s[1], s[2])
                   /\ lm # NoMove
                   /\ lm.piece.type = "pawn"
                   /\ lm.piece.color = opponentColor
                   /\ Abs(lm.from[1] - lm.to[1]) = 2
                   /\ lm.to = <<row, s[2]>>}
        rookReady(c) == b[row][c].type = "rook" /\ ~b[row][c].hasMoved
        castling ==
            IF ~piece.hasMoved /\ ~gameIsKingInCheck(b, color)
            THEN (IF /\ rookReady(7)
                     /\ ~Occupied(b, row, 5) /\ ~Occupied(b, row, 6)
                     /\ ~gameIsSquareAttacked(b, <<row, 5>>, opponentColor)
                     /\ ~gameIsSquareAttacked(b, <<row, 6>>, opponentColor)
                  THEN {<<row, 6>>} ELSE {})
                 \cup
                 (IF /\ rookReady(0)
                     /\ ~Occupied(b, row, 1) /\ ~Occupied(b, row, 2) /\ ~Occupied(b, row, 3)
                     /\ ~gameIsSquareAttacked(b, <<row, 2>>, opponentColor)
                     /\ ~gameIsSquareAttacked(b, <<row, 3>>, opponentColor)
                  THEN {<<row, 2>>} ELSE {})
            ELSE {}
    IN  CASE piece.type = "pawn" -> forward \cup diagonal
          [] piece.type = "rook" -> rays(RookDirs)
          [] piece.type = "knight" -> offsetMoves(b, row, col, KnightOffsets, opponentColor)
          [] piece.type = "bishop" -> rays(BishopDirs)
          [] piece.type = "queen" -> rays(RookDirs \cup BishopDirs)
          [] piece.type = "king" ->
                offsetMoves(b, row, col, KingSteps, opponentColor) \cup castling
          [] OTHER -> {}

\* the destinations of the piece on the square, whoever is to move
gameCalculatePossibleMoves(b, lm, row, col) ==
    IF ~Occupied(b, row, col) THEN {}
    ELSE {to \in gameRawCandidates(b, lm, row, col) :
             ~gameIsKingInCheck([b EXCEPT ![to[1]][to[2]] = b[row][col],
                                          ![row][col] = NoPiece],
                                b[row][col].color)}

isValidMove(moves, toRow, toCol) == <<toRow, toCol>> \in moves

switchTurns(t) == Other(t)

\* the fields checkGameStatus leaves
checkGameStatus(e) ==
    [e EXCEPT !.check = gameIsKingInCheck(e.board, e.turn),
              !.gameOver =
                  IF \E r \in Rows, c \in Rows :
                        /\ e.board[r][c].color = e.turn
                        /\ gameCalculatePossibleMoves(e.board, e.lastMove, r, c) # {}
                  THEN @ ELSE TRUE]

\* { ...cell }: a copy of the piece, an empty object when the cell holds null
copyOf(cell) == IF cell = NoPiece THEN EmptyObject ELSE cell

\* what movePiece returns and the fields it leaves.  Reading .hasMoved of a
\* rook that is not there throws after the writes made until then.
gameMovePiece(e, fromRow, fromCol, toRow, toCol) ==
    LET b == e.board
        piece == b[fromRow][fromCol]
        isPawnPromotion ==
            /\ piece.type = "pawn"
            /\ \/ piece.color = "white" /\ toRow = 0
               \/ piece.color = "black" /\ toRow = 7
        taking == Occupied(b, toRow, toCol)
        enPassant == ~taking /\ piece.type = "pawn" /\ fromCol # toCol
        move == [from |-> <<fromRow, fromCol>>,
                 to |-> <<toRow, toCol>>,
                 piece |-> piece,
                 captured |-> IF taking THEN b[toRow][toCol]
                              ELSE IF enPassant THEN copyOf(b[fromRow][toCol])
                              ELSE NoPiece,
                 promotion |-> isPawnPromotion,
                 castling |-> NoCastling,
                 enPassant |-> enPassant]
        ledger ==
            IF taking
            THEN [e.capturedPieces EXCEPT ![e.turn] = Append(@, b[toRow][toCol])]
            ELSE IF enPassant
            THEN [e.capturedPieces EXCEPT ![e.turn] = Append(@, b[fromRow][toCol])]
            ELSE e.capturedPieces
        b1 == IF enPassant THEN [b EXCEPT ![fromRow][toCol] = NoPiece] ELSE b
        castles == piece.type = "king" /\ Abs(toCol - fromCol) = 2
        rookFromCol == IF toCol > fromCol THEN 7 ELSE 0
        rookToCol == IF toCol > fromCol THEN 5 ELSE 3
        rook == b1[toRow][rookFromCol]
        b2 == IF castles
              THEN [b1 EXCEPT ![toRow][rookToCol] = [rook EXCEPT !.hasMoved = rook # NoPiece],
                              ![toRow][rookFromCol] = NoPiece]
              ELSE b1
        marked == IF piece.type \in {"pawn", "rook", "king"}
                  THEN [piece EXCEPT !.hasMoved = TRUE] ELSE piece
        b3 == [b2 EXCEPT ![toRow][toCol] = marked, ![fromRow][fromCol] = NoPiece]
        made == [move EXCEPT !.castling = IF castles THEN <<rookFromCol, rookToCol>>
                                          ELSE NoCastling]
        moved == [e EXCEPT !.board = b3,
                           !.capturedPieces = ledger,
                           !.lastMove = made,
                           !.moveHistory = Append(@, made)]
    IN  IF ~Occupied(b, fromRow, fromCol) THEN [returns |-> "false", engine |-> e]
        ELSE IF castles /\ rook = NoPiece
        THEN [returns |-> "TypeError",
              engine |-> [e EXCEPT !.board = b2, !.capturedPieces = ledger]]
        ELSE IF isPawnPromotion
        THEN [returns |-> "promotion",
              engine |-> [moved EXCEPT !.promotingPawn = <<toRow, toCol>>]]
        ELSE [returns |-> "normal",
              engine |-> checkGameStatus([moved EXCEPT !.turn = switchTurns(@)])]

\* what completePromotion leaves; setting .type of a cell that holds null
\* throws before anything is assigned
gameCompletePromotion(e, pieceType) ==
    IF e.promotingPawn = NoSquare THEN [returns |-> "undefined", engine |-> e]
    ELSE IF ~Occupied(e.board, e.promotingPawn[1], e.promotingPawn[2])
    THEN [returns |-> "TypeError", engine |-> e]
    ELSE [returns |-> "undefined",
          engine |-> checkGameStatus(
              [e EXCEPT !.board[e.promotingPawn[1]][e.promotingPawn[2]].type = pieceType,
                        !.promotingPawn = NoSquare,
                        !.turn = switchTurns(@)])]

\* capturedArray.findIndex(...) followed by splice: the index of the first
\* entry of the type and colour, 0 for none, -1 when a null entry is read
\* before one is found (reading .type of it throws)
ledgerIndex(ledger, captured) ==
    LET hits == {i \in 1..Len(ledger) :
                    \/ ledger[i] = NoPiece
                    \/ ledger[i].type = captured.type /\ ledger[i].color = captured.color}
        first == CHOOSE i \in hits : \A j \in hits : i <= j
    IN  IF hits = {} THEN 0 ELSE IF ledger[first] = NoPiece THEN -1 ELSE first

\* what undoMove returns and the fields it leaves
gameUndoMove(e) ==
    IF Len(e.moveHistory) = 0 THEN [returns |-> "false", engine |-> e]
    ELSE
    LET last == e.moveHistory[Len(e.moveHistory)]
        rest == SubSeq(e.moveHistory, 1, Len(e.moveHistory) - 1)
        b1 == [e.board EXCEPT ![last.from[1]][last.from[2]] = last.piece]
        b2 == IF last.captured # NoPiece
              THEN IF last.enPassant
                   THEN [b1 EXCEPT ![last.from[1]][last.to[2]] = last.captured]
                   ELSE [b1 EXCEPT ![last.to[1]][last.to[2]] = last.captured]
              ELSE [b1 EXCEPT ![last.to[1]][last.to[2]] = NoPiece]
        capturedArray == e.capturedPieces[e.turn]
        index == IF last.captured # NoPiece THEN ledgerIndex(capturedArray, last.captured)
                 ELSE 0
        ledger == IF index > 0
                  THEN [e.capturedPieces EXCEPT ![e.turn] =
                            SubSeq(@, 1, index - 1) \o SubSeq(@, index + 1, Len(@))]
                  ELSE e.capturedPieces
        row == last.from[1]
        rook == b2[row][last.castling[2]]
        b3 == IF last.castling # NoCastling
              THEN [b2 EXCEPT ![row][last.castling[1]] =
                                  IF rook = NoPiece THEN NoPiece
                                  ELSE [rook EXCEPT !.hasMoved = FALSE],
                              ![row][last.castling[2]] = NoPiece]
              ELSE b2
    IN  IF index = -1
        THEN [returns |-> "TypeError",
              engine |-> [e EXCEPT !.moveHistory = rest, !.board = b2]]
        ELSE IF last.castling # NoCastling /\ rook = NoPiece
        THEN [returns |-> "TypeError",
              engine |-> [e EXCEPT !.moveHistory = rest, !.board = b3,
                                   !.capturedPieces = ledger]]
        ELSE [returns |-> "true",
              engine |-> [e EXCEPT !.moveHistory = rest,
                                   !.board = b3,
                                   !.capturedPieces = ledger,
                                   !.turn = switchTurns(@),
                                   !.gameOver = FALSE,
                                   !.check = FALSE,
                                   !.lastMove = IF Len(rest) > 0 THEN rest[Len(rest)]
                                                ELSE NoMove]]

-----------------------------------------------------------------------------
(* The engine of ChessGame as a state machine *)

\* calls made on the freshly constructed engine of ChessGame
GameStartCalls == 2

\* calls made on an engine of ChessGame that holds a mid-game position
GameCalls == 3

\* the engine is left as e
gameEngineBecomes(e) ==
    /\ board' = e.board
    /\ turn' = e.turn
    /\ moveHistory' = e.moveHistory
    /\ capturedPieces' = e.capturedPieces
    /\ check' = e.check
    /\ gameOver' = e.gameOver
    /\ lastMove' = e.lastMove
    /\ promotingPawn' = e.promotingPawn

\* the engine holds the position with nothing recorded; capturedPieces[c]
\* lists what the side c has taken
InitGameEngine(b, t, calls) ==
    /\ \E e \in {checkGameStatus([board |-> b, turn |-> t, moveHistory |-> <<>>,
                                  capturedPieces |-> [white |-> LedgerFrom(b, "black", 1),
                                                      black |-> LedgerFrom(b, "white", 1)],
                                  check |-> FALSE, gameOver |-> FALSE,
                                  lastMove |-> NoMove, promotingPawn |-> NoSquare])} :
          /\ board = e.board
          /\ turn = e.turn
          /\ moveHistory = e.moveHistory
          /\ capturedPieces = e.capturedPieces
          /\ check = e.check
          /\ gameOver = e.gameOver
          /\ lastMove = e.lastMove
          /\ promotingPawn = e.promotingPawn
    /\ result = "none"
    /\ played = <<>>
    /\ remaining = calls
    /\ InitBotFields

\* Black to move.  White Kh1, pawn e5; Black Kh8, pawn d7 (unmoved).
\* After d7-d5 the white pawn may take en passant on d6.
EnPassantOpen ==
    [board |-> Place({<< <<7, 7>>, P("king", "white", TRUE) >>,
                      << <<3, 4>>, P("pawn", "white", TRUE) >>,
                      << <<0, 7>>, P("king", "black", TRUE) >>,
                      << <<1, 3>>, P("pawn", "black", FALSE) >>}),
     turn |-> "black"]

GamePositions == {EnPassantOpen, Promotion, Castling}

InitGame5 ==
    /\ \/ InitGameEngine(setupBoard, "white", GameStartCalls)
       \/ \E p \in GamePositions : InitGameEngine(p.board, p.turn, GameCalls)
    /\ InitSystem(3)
    /\ InitGameFields
    /\ InitSearchFields
    /\ InitIntegrationFields

\* a call of movePiece; played records the fields the call found
GameMovePieceCall(fromRow, fromCol, toRow, toCol) ==
    /\ remaining > 0
    /\ remaining' = remaining - 1
    /\ \E made \in {gameMovePiece(this, fromRow, fromCol, toRow, toCol)} :
          /\ gameEngineBecomes(made.engine)
          /\ result' = made.returns
          /\ played' = IF made.returns \in {"normal", "promotion"}
                       THEN Append(played, [board |-> board, turn |-> turn,
                                            from |-> <<fromRow, fromCol>>,
                                            to |-> <<toRow, toCol>>])
                       ELSE played
    /\ UNCHANGED <<aiVars, botVars, gameVars, searchVars,
                 integrationVars>>

\* the moves calculatePossibleMoves offers for the pieces of the side to move
GameOffered ==
    UNION {{<<from, to>> : to \in gameCalculatePossibleMoves(board, lastMove,
                                                             from[1], from[2])}
           : from \in {s \in Squares : board[s[1]][s[2]].color = turn}}

\* a legal move of the side to move; the promotion dialog is answered or
\* dismissed by Undo before the next move is made
GameMovePiece ==
    /\ remaining > 0
    /\ promotingPawn = NoSquare
    /\ \E in \in GameOffered : GameMovePieceCall(in[1][1], in[1][2], in[2][1], in[2][2])

GameCompletePromotion ==
    /\ remaining > 0
    /\ remaining' = remaining - 1
    /\ \E pieceType \in PromotionTypes :
          \E done \in {gameCompletePromotion(this, pieceType)} :
             /\ gameEngineBecomes(done.engine)
             /\ result' = IF done.returns = "TypeError" THEN "TypeError"
                          ELSE IF promotingPawn = NoSquare THEN "nothingPending"
                          ELSE "completed"
    /\ UNCHANGED <<played, aiVars, botVars, gameVars, searchVars,
                 integrationVars>>

GameUndoMove ==
    /\ remaining > 0
    /\ remaining' = remaining - 1
    /\ \E done \in {gameUndoMove(this)} :
          /\ gameEngineBecomes(done.engine)
          /\ result' = IF done.returns = "true" THEN "undone" ELSE done.returns
          /\ played' = IF done.returns = "true" THEN SubSeq(played, 1, Len(played) - 1)
                       ELSE played
    /\ UNCHANGED <<aiVars, botVars, gameVars, searchVars,
                 integrationVars>>

NextGame5 == GameMovePiece \/ GameCompletePromotion \/ GameUndoMove

SpecGame5 == InitGame5 /\ [][NextGame5]_vars

-----------------------------------------------------------------------------
(* Properties of the engine of ChessGame *)

\* C27: movePiece followed by undoMove restores the board exactly, for
\* ordinary moves, captures, castling and en passant captures: the board a
\* successful undoMove leaves is the board the undone movePiece found.
C27_MoveUndoRestoresBoard ==
    [][result' = "undone" /\ Len(played') < Len(played)
          => board' = played[Len(played)].board]_vars

\* C28: whenever promotingPawn is set, the square it names holds a pawn of
\* the side to move on that side's last rank (so the turn has stayed with
\* the side that made the promoting move, also after an undoMove).
C28_PendingPromotionIsCoherent ==
    promotingPawn # NoSquare =>
        /\ board[promotingPawn[1]][promotingPawn[2]].type = "pawn"
        /\ board[promotingPawn[1]][promotingPawn[2]].color = turn
        /\ promotingPawn[1] = (IF turn = "white" THEN 0 ELSE 7)

-----------------------------------------------------------------------------
-----------------------------------------------------------------------------
(* ChessGame and ChessAI (src/app/GAMEOPT/js/chess-ai.js): the page's      *)
(* controller and its computer opponent.  The handlers run to completion   *)
(* one at a time; makeAIMove is suspended at its await while chooseMove    *)
(* waits out the thinking time, and the handlers of the clicks made in the *)
(* meantime run before it resumes.  The opponent plays at difficulty 1,    *)
(* where the move is drawn at random.                                      *)

\* clicks and button presses made on a freshly loaded page
PageEvents == 4

\* clicks and button presses made on a page that shows a mid-game position
MidGameEvents == 4

\* the squares the player clicks: e2, e4, e7, e5, a7, a8, b8
ClickSquares == {<<6, 4>>, <<4, 4>>, <<1, 4>>, <<3, 4>>, <<1, 0>>, <<0, 0>>, <<0, 1>>}

generateAllLegalMoves(e, color) ==
    UNION {{[from |-> from, to |-> to, piece |-> e.board[from[1]][from[2]]]
            : to \in gameCalculatePossibleMoves(e.board, e.lastMove, from[1], from[2])}
           : from \in {s \in Squares : e.board[s[1]][s[2]].color = color}}

\* the moves chooseBeginner may return: any capture, or any move
chooseBeginner(moves, e) ==
    LET captures == {move \in moves :
                        /\ Occupied(e.board, move.to[1], move.to[2])
                        /\ e.board[move.to[1]][move.to[2]].color # move.piece.color}
    IN  captures \cup moves

\* the moves ChessAI.chooseMove may resolve to; none stands for null, which
\* is returned before the thinking time is waited out
gameChooseMove(e, color) ==
    Bind(generateAllLegalMoves(e, color), LAMBDA moves :
        IF moves = {} THEN {} ELSE chooseBeginner(moves, e))

\* makeAIMove until its await: the suspended calls once makeAIMove has been
\* called on the engine e, th being the calls suspended before
makeAIMoveAwaits(e, vs, th) ==
    IF ~vs \/ e.gameOver \/ e.turn # computerSide THEN {th}
    ELSE Bind(gameChooseMove(e, e.turn), LAMBDA found :
            IF found = {} THEN {th} ELSE {Append(th, move) : move \in found})

\* makeAIMove from its await on: the fields a resumed call leaves, which
\* catches what movePiece and completePromotion throw
makeAIMoveResumes(e, move) ==
    Bind(gameMovePiece(e, move.from[1], move.from[2], move.to[1], move.to[2]),
         LAMBDA made :
            IF made.returns = "TypeError" THEN made.engine
            ELSE IF made.returns = "promotion"
            THEN Bind(gameCompletePromotion(made.engine, "queen"), LAMBDA done :
                    IF done.returns = "TypeError" THEN done.engine
                    ELSE checkGameStatus(done.engine))
            ELSE checkGameStatus(made.engine))

\* a handler has run: one click or button press is used up
handled ==
    /\ remaining > 0
    /\ remaining' = remaining - 1
    /\ UNCHANGED <<played, aiVars, botVars, searchVars, integrationVars, computerSide, applied>>

toggleAI ==
    /\ handled
    /\ vsComputer' = ~vsComputer
    /\ thinking' \in makeAIMoveAwaits(this, ~vsComputer, thinking)
    /\ result' = "toggleAI"
    /\ UNCHANGED <<engineVars, selectedSquare, possibleMoves, undoTimers>>

\* ui.selectSquare
selectSquare(row, col) ==
    /\ selectedSquare' = <<row, col>>
    /\ possibleMoves' = gameCalculatePossibleMoves(board, lastMove, row, col)

\* a click on the square while no promotion dialog is shown
handleBoardClick(row, col) ==
    /\ handled
    /\ ~gameOver
    /\ ~(vsComputer /\ turn = computerSide)
    /\ promotingPawn = NoSquare
    /\ UNCHANGED <<vsComputer, undoTimers>>
    /\ IF selectedSquare # NoSquare /\ isValidMove(possibleMoves, row, col)
       THEN \E made \in {gameMovePiece(this, selectedSquare[1], selectedSquare[2],
                                       row, col)} :
               /\ result' = made.returns
               /\ UNCHANGED <<selectedSquare, possibleMoves>>
               /\ IF made.returns \in {"promotion", "TypeError"}
                  THEN /\ gameEngineBecomes(made.engine)
                       /\ UNCHANGED thinking
                  ELSE \E e \in {checkGameStatus(made.engine)} :
                          /\ gameEngineBecomes(e)
                          /\ thinking' \in makeAIMoveAwaits(e, vsComputer /\ ~e.gameOver,
                                                            thinking)
       ELSE /\ UNCHANGED <<engineVars, thinking>>
            /\ IF board[row][col].color = turn
               THEN /\ selectSquare(row, col)
                    /\ result' = "selected"
               ELSE /\ selectedSquare' = NoSquare
                    /\ possibleMoves' = {}
                    /\ result' = "deselected"

HandleBoardClick == \E square \in ClickSquares : handleBoardClick(square[1], square[2])

\* the thinking time of the oldest suspended makeAIMove call has passed
makeAIMove ==
    /\ thinking # <<>>
    /\ thinking' = Tail(thinking)
    /\ \E move \in {Head(thinking)} :
          /\ gameEngineBecomes(makeAIMoveResumes(this, move))
          /\ applied' = [move |-> move,
                         placed |-> Occupied(board, move.from[1], move.from[2]),
                         onTurn |-> turn = computerSide,
                         legal |-> \E m \in generateAllLegalMoves(this, computerSide) :
                                      m.from = move.from /\ m.to = move.to]
    /\ result' = "makeAIMove"
    /\ UNCHANGED <<played, remaining, aiVars, botVars, searchVars, integrationVars, selectedSquare, possibleMoves,
                   vsComputer, computerSide, undoTimers>>

\* the Undo button, pressed when there is a move to undo
ChessGameUndoMove ==
    /\ handled
    /\ Len(moveHistory) > 0
    /\ \E done \in {gameUndoMove(this)} :
          /\ gameEngineBecomes(done.engine)
          /\ result' = done.returns
          /\ undoTimers' = IF /\ done.returns = "true"
                              /\ vsComputer
                              /\ Len(done.engine.moveHistory) > 0
                           THEN undoTimers + 1 ELSE undoTimers
    /\ UNCHANGED <<selectedSquare, possibleMoves, vsComputer, thinking>>

\* the 300 ms timer of ChessGame.undoMove fires
UndoTimerFires ==
    /\ undoTimers > 0
    /\ undoTimers' = undoTimers - 1
    /\ gameEngineBecomes(gameUndoMove(this).engine)
    /\ result' = "undoTimer"
    /\ UNCHANGED <<played, remaining, aiVars, botVars, searchVars, integrationVars, selectedSquare, possibleMoves,
                   vsComputer, computerSide, thinking, applied>>

\* a button of the promotion dialog
ChessGameCompletePromotion ==
    /\ handled
    /\ promotingPawn # NoSquare
    /\ \E pieceType \in PromotionTypes :
          \E done \in {gameCompletePromotion(this, pieceType)} :
             /\ result' = IF done.returns = "TypeError" THEN "TypeError" ELSE "completed"
             /\ IF done.returns = "TypeError"
                THEN /\ gameEngineBecomes(done.engine)
                     /\ UNCHANGED thinking
                ELSE \E e \in {checkGameStatus(done.engine)} :
                        /\ gameEngineBecomes(e)
                        /\ thinking' \in makeAIMoveAwaits(e, vsComputer /\ ~e.gameOver,
                                                          thinking)
    /\ UNCHANGED <<selectedSquare, possibleMoves, vsComputer, undoTimers>>

\* the page after loading, or showing a position set up on the board; the
\* opponent's difficulty has been set to 1
InitChessGame ==
    /\ \/ InitGameEngine(setupBoard, "white", PageEvents)
       \/ InitGameEngine(Promotion.board, Promotion.turn, MidGameEvents)
    /\ InitSystem(1)
    /\ InitGameFields
    /\ InitSearchFields
    /\ InitIntegrationFields

NextChessGame ==
    \/ toggleAI
    \/ HandleBoardClick
    \/ makeAIMove
    \/ ChessGameUndoMove
    \/ UndoTimerFires
    \/ ChessGameCompletePromotion

SpecChessGame == InitChessGame /\ [][NextChessGame]_vars

-----------------------------------------------------------------------------
(* Properties of ChessGame *)

\* C26: every move a resumed makeAIMove applies is applied while it is the
\* computer's turn and is a legal move of the computer's colour in the
\* position the call finds, whatever the player did while chooseMove waited.
C26_AIMoveAppliedOnItsTurn ==
    (applied # <<>> /\ applied.placed) => (applied.onTurn /\ applied.legal)

-----------------------------------------------------------------------------
(* Nodes of the search whose side to move has no move *)

\* the engines the search holds one ply below the engine's position, the
\* side to move there having no legal move
DeadEnds ==
    Bind(getAllPossibleMoves(this, turn), LAMBDA allMoves :
        {e \in {aiMakeMove(this, allMoves[k]).engine : k \in 1..Len(allMoves)} :
            getAllPossibleMoves(e, e.turn) = <<>>})

\* the score minimax returns at the node, seen from the side to move there
deadEndScore(e, depth) ==
    Bind(minimax(e, depth, e.turn = "white", -Infinity, Infinity).score, LAMBDA score :
        IF e.turn = "white" THEN score ELSE -score)

\* C31: at a node of depth > 0 whose side to move has no legal move, minimax
\* returns 0 when that side is not in check, and when it is in check a
\* negative finite score for that side that depends on the remaining depth.
C31_DeadEndScores ==
    \A e \in DeadEnds :
        IF isKingInCheck(e.board, e.turn)
        THEN /\ \A depth \in 1..2 : /\ deadEndScore(e, depth) < 0
                                    /\ deadEndScore(e, depth) > -Infinity
             /\ deadEndScore(e, 1) # deadEndScore(e, 2)
        ELSE \A depth \in 1..2 : deadEndScore(e, depth) = 0

-----------------------------------------------------------------------------
(* The time-boxed search against the wall clock.  The clock reaches the    *)
(* limit while some root move of some iteration is being searched: the     *)
(* loop tests before that iteration read a clock below the limit, the test *)
(* after it reads one at or past the limit.                                *)

\* the calls made on each engine of the timed searches
TimedCalls == 1

\* the engines handed to the timed searches
TimedPositions ==
    {Cage(wk, bk) : wk \in {<<7, 5>>, <<7, 6>>, <<7, 7>>}, bk \in {<<0, 0>>, <<0, 1>>, <<0, 3>>}}

\* the moments the clock may reach timeLimit: while root move `node` of
\* iteration `iteration` is searched, or after the sixth iteration (7, 0)
Deadlines(allMoves) ==
    {[iteration |-> i, node |-> n] : i \in 1..6, n \in 1..Len(allMoves)}
    \cup {[iteration |-> 7, node |-> 0]}

\* the loop tests of getBestMoveWithTime that read a clock below timeLimit
ticksBefore(deadline) == deadline.iteration

\* the passes of the for loop of getBestMoveMinMax made by the iterations
\* ran: the loop has no exit, every root move is searched in every iteration
rootNodes(shuffled, ran) ==
    {[iteration |-> i, node |-> n] : i \in 1..Len(ran), n \in 1..Len(shuffled)}

\* node is searched after the clock has reached the limit
afterDeadline(node, deadline) ==
    \/ node.iteration > deadline.iteration
    \/ node.iteration = deadline.iteration /\ node.node > deadline.node

timedSearch(color) ==
    /\ remaining > 0
    /\ remaining' = remaining - 1
    /\ result' = "getBestMoveWithTime"
    /\ UNCHANGED <<moveHistory, capturedPieces, gameOver, promotingPawn, played,
                   difficulty, sabotaged, sabotageArg, sabotageMoves, bypassLog,
                   botVars, gameVars, transpositionTable, integrationVars>>
    /\ \E allMoves \in {getAllPossibleMoves(this, color)} :
       \E shuffled \in Shuffles(allMoves) :
       \E found \in {searches(this, color, shuffled, 1)} :
       \E deadline \in Deadlines(allMoves) :
       \E done \in {getBestMoveWithTime(this, found, ticksBefore(deadline))} :
          /\ request' = [color |-> color, deadline |-> deadline, moves |-> Len(allMoves)]
          /\ reply' = [expanded |-> rootNodes(shuffled, done.ran),
                       iterations |-> Len(done.ran)]
          /\ IF done.move # NoChoice
             THEN chooseMoveReturns(done.engine, done.move,
                                    Path("timed", color, done.score, Len(done.ran),
                                         ticksBefore(deadline), done.ran))
             ELSE \E move \in getRandomMove(done.engine, color) :
                     chooseMoveReturns(done.engine, move,
                                       Path("timedRandom", color, 0, Len(done.ran),
                                            ticksBefore(deadline), done.ran))

TimedSearch == \E color \in {"white", "black"} : timedSearch(color)

InitTimed ==
    \E p \in TimedPositions :
       /\ InitEngine(p.board, p.turn,
                     [white |-> LedgerFrom(p.board, "white", 1),
                      black |-> LedgerFrom(p.board, "black", 1)],
                     TimedCalls)
       /\ InitSystem(5)
       /\ InitBotFields
       /\ InitGameFields
       /\ InitSearchFields
       /\ InitIntegrationFields

NextTimed == TimedSearch

SpecTimed == InitTimed /\ [][NextTimed]_vars

\* C34: in a time-boxed search the deadline is consulted at each search
\* node: no root move is searched after the clock has reached the limit, and
\* an iteration the limit interrupts supplies no move, the search returning
\* with the iterations completed before it.
C34_DeadlineStopsSearch ==
    (result = "getBestMoveWithTime" /\ request.deadline.iteration <= 6) =>
       /\ \A node \in reply.expanded : ~afterDeadline(node, request.deadline)
       /\ request.deadline.node < request.moves =>
             reply.iterations < request.deadline.iteration

-----------------------------------------------------------------------------
(* The game statistics of ChessEngineCore *)

\* the gameOver and winner entries of the object getGameStats returns
\* ("none" for null)
getGameStats ==
    [gameOver |-> gameOver,
     winner |-> IF gameOver THEN (IF turn = "white" THEN "black" ELSE "white") ELSE "none"]

\* C37: getGameStats names a winner only for checkmate: the side that gave
\* mate when the side to move is in check and has no legal move; null when
\* the side to move has no legal move and is not in check, and null while the
\* game is in progress.
C37_WinnerOnlyForCheckmate ==
    getGameStats.winner =
        IF hasNoLegalMoves(board, turn, lastMove) /\ isKingInCheck(board, turn)
        THEN Other(turn)
        ELSE "none"

-----------------------------------------------------------------------------
(* The castling rights of the bot-vs-bot engine *)

\* the square the rook of the side stands on before it has moved
rookHome(color, side) ==
    <<IF color = "white" THEN 7 ELSE 0, IF side = "queenside" THEN 0 ELSE 7>>

\* C36: makeMove clears a colour's queenside (kingside) castling right only
\* when the piece moved is that colour's king or its rook that started on the
\* a-file (h-file); a move by any other piece, that colour's other rook
\* included, leaves the right as it is.
C36_RightsClearedOnlyByKingOrOwnRook ==
    [][\A color \in {"white", "black"} : \A side \in {"kingside", "queenside"} :
          (result' = "accepted" /\ castlingRights[color][side]
           /\ ~castlingRights'[color][side]) =>
             LET from == moveHistory'[Len(moveHistory')].from
                 piece == board[from[1]][from[2]]
             IN  /\ piece.color = color
                 /\ \/ piece.type = "king"
                    \/ /\ piece.type = "rook"
                       /\ ~piece.hasMoved
                       /\ from = rookHome(color, side)]_vars

-----------------------------------------------------------------------------
(* ExtendedChessAIIntegration on the event loop of its page.  One action   *)
(* is one task of the loop, run to completion: a call of makeAIMove up to  *)
(* its await, or a timer whose delay has passed with the code its callback *)
(* resumes.  The game the search works on is left out: chooseMove is       *)
(* modelled by the time each root move costs it and by whether it finds,   *)
(* finds nothing or throws; a move is known by the method that chose it.   *)

\* calls of makeAIMove made on the page
IntegrationCalls == 2

\* the most root moves the game offers chooseMove
MaxRootMoves == 2

\* milliseconds the search below one root move may take
RootCosts == {700, 1500, 2500}

\* the values floor(Math.random() * 200) takes here
RandomMillis == {0, 100, 199}

NoFrame == <<>>

\* the time each root move of the position costs; none when the side to
\* move has no legal move
RootCostSeqs == UNION {[1..n -> RootCosts] : n \in 0..MaxRootMoves}

\* the switch of makeAIMove
integrationDepth(level) ==
    CASE level = 1 -> 1
      [] level = 2 -> 2
      [] level = 3 -> 2
      [] level = 4 -> 3
      [] level = 5 -> 3
      [] OTHER -> 2

\* Math.min(difficulty * 100 + Math.random() * 200, 500)
thinkingTime(level, random) == Min(level * 100 + random, 500)

RECURSIVE chooseMoveLoop(_, _, _, _)
\* the for loop of ExtendedChessAI.chooseMove from root move k on: the loop is
\* left when more than 2000 ms have passed since startTime
chooseMoveLoop(costs, k, elapsed, evaluated) ==
    IF k > Len(costs) \/ elapsed > 2000
    THEN [evaluated |-> evaluated, time |-> elapsed]
    ELSE chooseMoveLoop(costs, k + 1, elapsed + costs[k], evaluated + 1)

\* ExtendedChessAI.chooseMove: the move it returns and the time it takes
extendedChooseMove(costs) ==
    IF Len(costs) = 0 THEN [move |-> NoChoice, time |-> 0]
    ELSE Bind(chooseMoveLoop(costs, 1, 0, 0), LAMBDA done :
             [move |-> [by |-> "chooseMove", evaluated |-> done.evaluated],
              time |-> done.time])

\* getQuickMove: null when the side has no legal move
getQuickMove(costs) ==
    IF Len(costs) = 0 THEN NoChoice ELSE [by |-> "getQuickMove", evaluated |-> 0]

\* the timers whose delay has passed once the clock shows at, the earliest
\* first; the loop runs them only between two tasks
due(pending, at) == {t \in pending : t.due <= at /\ \A u \in pending : t.due <= u.due}

\* makeAIMove from the statement after its await to its return, entered at
\* the time at: the timer it sets is pending while chooseMove runs and is
\* cleared in the same task, before the loop can run its callback
makeAIMoveAfterSleep(frame, at, costs, throws) ==
    LET timeoutId == [kind |-> "timeout", due |-> at + 2000, frame |-> 1]
        armed == [frame EXCEPT !.timeoutReached = FALSE]
        calc == IF throws THEN [move |-> NoChoice, time |-> 0]
                ELSE extendedChooseMove(costs)
        \* no other task runs before clearTimeout: the callback has not run
        after == armed
        move == IF throws THEN getQuickMove(costs)
                ELSE IF after.timeoutReached THEN getQuickMove(costs)
                ELSE calc.move
    IN  [move |-> move,
         calculationTime |-> calc.time,
         timeoutReached |-> after.timeoutReached,
         thrown |-> throws,
         set |-> {timeoutId},
         cleared |-> {timeoutId},
         now |-> at + calc.time]

integrationMakeAIMove(color, level, random) ==
    /\ remaining > 0
    /\ remaining' = remaining - 1
    /\ request' = [color |-> color, difficulty |-> level]
    /\ IF isThinking
       THEN /\ result' = "null"
            /\ UNCHANGED <<integrationVars, moveHistory, reply>>
       ELSE /\ isThinking' = TRUE
            /\ frames' = <<[color |-> color, difficulty |-> level,
                            depth |-> integrationDepth(level), timeoutReached |-> FALSE]>>
            /\ timers' = timers \cup {[kind |-> "sleep",
                                       due |-> now + thinkingTime(level, random),
                                       frame |-> 1]}
            /\ result' = "pending"
            /\ UNCHANGED <<now, moveHistory, reply>>
    /\ UNCHANGED <<board, turn, capturedPieces, check, gameOver, lastMove, promotingPawn,
                   played, aiVars, botVars, gameVars, transpositionTable>>

IntegrationMakeAIMove ==
    \E color \in {"white", "black"} : \E level \in 1..5 : \E random \in RandomMillis :
        integrationMakeAIMove(color, level, random)

\* the loop runs the callback of a timer whose delay has passed
timerFires(t) ==
    /\ t \in due(timers, t.due)
    /\ IF t.kind = "sleep"
       THEN \E costs \in RootCostSeqs : \E throws \in BOOLEAN :
            \E done \in {makeAIMoveAfterSleep(frames[t.frame], Max(now, t.due),
                                              costs, throws)} :
               /\ timers' = (((timers \ {t}) \cup done.set) \ done.cleared)
               /\ now' = done.now
               /\ moveHistory' = IF done.move # NoChoice
                                 THEN Append(moveHistory,
                                             [move |-> done.move,
                                              color |-> frames[t.frame].color,
                                              timestamp |-> done.now,
                                              difficulty |-> frames[t.frame].difficulty])
                                 ELSE moveHistory
               /\ isThinking' = FALSE
               /\ frames' = <<>>
               /\ reply' = [move |-> done.move, calculationTime |-> done.calculationTime,
                            timeoutReached |-> done.timeoutReached, thrown |-> done.thrown]
               /\ result' = "resolved"
       ELSE \* the callback of the 2-second timer
            /\ frames' = [frames EXCEPT ![t.frame].timeoutReached = TRUE]
            /\ timers' = timers \ {t}
            /\ now' = Max(now, t.due)
            /\ UNCHANGED <<moveHistory, isThinking, reply, result>>
    /\ UNCHANGED <<board, turn, capturedPieces, check, gameOver, lastMove, promotingPawn,
                   played, remaining, aiVars, botVars, gameVars, request,
                   transpositionTable>>

TimerFires == \E t \in timers : timerFires(t)

InitIntegration ==
    /\ InitEngine(setupBoard, "white", [white |-> <<>>, black |-> <<>>], IntegrationCalls)
    /\ InitSystem(3)
    /\ InitBotFields
    /\ InitGameFields
    /\ InitSearchFields
    /\ InitIntegrationFields

NextIntegration == IntegrationMakeAIMove \/ TimerFires

SpecIntegration == InitIntegration /\ [][NextIntegration]_vars

\* C39: when the move calculation of makeAIMove takes longer than 2 seconds,
\* the 2-second timer has marked the timeout before the result is used, and
\* the move returned is the one getQuickMove chose, not that of the search.
C39_SlowSearchFallsBack ==
    (result = "resolved" /\ ~reply.thrown /\ reply.calculationTime > 2000) =>
       /\ reply.timeoutReached
       /\ reply.move.by = "getQuickMove"

-----------------------------------------------------------------------------
(* AdvancedHintEngine (part_007): the hint worker and its transposition    *)
(* table.  Its piece values and its pawn, knight and bishop tables are the *)
(* ones defined above; boards are handed from call to call as values, as   *)
(* makeMove copies them.                                                   *)

\* the squares of the sequence that are in the set
keepIn(targets, allowed) == SelectSeq(targets, LAMBDA square : square \in allowed)

\* the squares a rook, bishop or queen may go to, in the order of the loops
\* over the directions and the distance
slidingSquares(b, row, col, dirs, color) ==
    keepIn(rayTargets(row, col, dirs),
           UNION {addDirectionalMoves(b, row, col, dirs[d][1], dirs[d][2], Other(color)) :
                     d \in 1..Len(dirs)})

\* the squares a knight or king may go to, in the order of the offsets
steppingSquares(b, row, col, offsets, color) ==
    keepIn(offsetTargets(row, col, offsets),
           offsetMoves(b, row, col, {offsets[k] : k \in 1..Len(offsets)}, Other(color)))

\* generatePawnMoves, as the squares moved to
generatePawnMoves(b, row, col, color) ==
    LET direction == IF color = "white" THEN -1 ELSE 1
        startRow == IF color = "white" THEN 6 ELSE 1
        newRow == row + direction
        free(r, c) == isInBounds(r, c) /\ ~Occupied(b, r, c)
        takes(c) == isInBounds(newRow, c) /\ Occupied(b, newRow, c)
                    /\ b[newRow][c].color # color
    IN  (IF free(newRow, col)
         THEN << <<newRow, col>> >>
              \o (IF row = startRow /\ ~Occupied(b, newRow + direction, col)
                  THEN << <<newRow + direction, col>> >> ELSE <<>>)
         ELSE <<>>)
        \o (IF takes(col - 1) THEN << <<newRow, col - 1>> >> ELSE <<>>)
        \o (IF takes(col + 1) THEN << <<newRow, col + 1>> >> ELSE <<>>)

\* generatePieceMoves, as the squares moved to
generatePieceMoves(b, row, col, piece) ==
    CASE piece.type = "pawn" -> generatePawnMoves(b, row, col, piece.color)
      [] piece.type = "rook" -> slidingSquares(b, row, col, RookDirSeq, piece.color)
      [] piece.type = "knight" -> steppingSquares(b, row, col, KnightOffsetSeq, piece.color)
      [] piece.type = "bishop" -> slidingSquares(b, row, col, BishopDirSeq, piece.color)
      [] piece.type = "queen" ->
            slidingSquares(b, row, col, RookDirSeq, piece.color)
            \o slidingSquares(b, row, col, BishopDirSeq, piece.color)
      [] piece.type = "king" -> steppingSquares(b, row, col, KingOffsetSeq, piece.color)
      [] OTHER -> <<>>

generateAllMoves(b, color) ==
    Bind([i \in 1..64 |->
             LET row == SquareAt(i)[1]
                 col == SquareAt(i)[2]
             IN  IF Occupied(b, row, col) /\ b[row][col].color = color
                 THEN Bind(generatePieceMoves(b, row, col, b[row][col]), LAMBDA targets :
                          [k \in 1..Len(targets) |->
                              [from |-> <<row, col>>, to |-> targets[k]]])
                 ELSE <<>>],
         LAMBDA perSquare : Flatten(perSquare, 1, 64))

evaluateBoard(b, color) ==
    Bind([i \in 1..64 |->
             LET row == SquareAt(i)[1]
                 col == SquareAt(i)[2]
                 piece == b[row][col]
                 tableRow == IF piece.color = "white" THEN row ELSE 7 - row
                 positional ==
                     CASE piece.type = "pawn" -> pawnTable[tableRow + 1][col + 1]
                       [] piece.type = "knight" -> knightTable[tableRow + 1][col + 1]
                       [] piece.type = "bishop" -> bishopTable[tableRow + 1][col + 1]
                       [] OTHER -> 0
             IN  IF ~Occupied(b, row, col) THEN 0
                 ELSE Bind(pieceValues[piece.type] + positional
                           + Len(generatePieceMoves(b, row, col, piece)) * 10,
                           LAMBDA pieceValue :
                               IF piece.color = color THEN pieceValue ELSE -pieceValue)],
         LAMBDA score : SumSeq(score, 1, 64))

\* makeMove: the copy of the board with the piece moved
hintMakeMove(b, move) ==
    [b EXCEPT ![move.to[1]][move.to[2]] = b[move.from[1]][move.from[2]],
              ![move.from[1]][move.from[2]] = NoPiece]

\* new Map()
EmptyTable == <<>>

\* JSON.stringify(board) + depth + maximizingPlayer: the text names the board,
\* the depth and the flag, and nothing else
boardKey(b, depth, maximizingPlayer) == <<b, depth, maximizingPlayer>>

\* transpositionTable.set(key, entry)
tableSet(table, key, entry) == [k \in DOMAIN table \cup {key} |->
                                   IF k = key THEN entry ELSE table[k]]

\* mutant: the table is never read
tableHas_Never(table, key) == FALSE

\* transpositionTable.has(key)
tableHas(table, key) == key \in DOMAIN table

RECURSIVE hintMinimax(_, _, _, _, _, _, _)
RECURSIVE hintLoop(_, _, _, _, _, _, _, _)

\* one pass through the body of either for loop of minimax
hintStep(acc, b, move, depth, maximizingPlayer, color) ==
    Bind(hintMinimax(acc.table, hintMakeMove(b, move), depth - 1, acc.alpha, acc.beta,
                     ~maximizingPlayer, color),
         LAMBDA evaluation :
             LET better == IF maximizingPlayer THEN evaluation.score > acc.best
                           ELSE evaluation.score < acc.best
                 alpha == IF maximizingPlayer THEN Max(acc.alpha, evaluation.score)
                          ELSE acc.alpha
                 beta == IF maximizingPlayer THEN acc.beta
                         ELSE Min(acc.beta, evaluation.score)
             IN  [best |-> IF better THEN evaluation.score ELSE acc.best,
                  bestMove |-> IF better THEN move ELSE acc.bestMove,
                  alpha |-> alpha,
                  beta |-> beta,
                  broken |-> beta <= alpha,
                  table |-> evaluation.table])

\* the for loop over moves[lo..hi], left at the break
hintLoop(acc, b, moves, lo, hi, depth, maximizingPlayer, color) ==
    IF lo > hi \/ acc.broken THEN acc
    ELSE IF lo = hi THEN hintStep(acc, b, moves[lo], depth, maximizingPlayer, color)
    ELSE Bind(hintLoop(acc, b, moves, lo, (lo + hi) \div 2, depth, maximizingPlayer, color),
              LAMBDA first :
                  hintLoop(first, b, moves, (lo + hi) \div 2 + 1, hi, depth,
                           maximizingPlayer, color))

\* minimax(board, depth, alpha, beta, maximizingPlayer, color) run on the
\* table: the entry returned and the table as the call leaves it
hintMinimax(table, b, depth, alpha, beta, maximizingPlayer, color) ==
    Bind(boardKey(b, depth, maximizingPlayer), LAMBDA key :
        IF tableHas(table, key)
        THEN [score |-> table[key].score, move |-> table[key].move, table |-> table]
        ELSE IF depth = 0
        THEN Bind(evaluateBoard(b, color), LAMBDA score :
                 [score |-> score, move |-> NoChoice,
                  table |-> tableSet(table, key, [score |-> score, move |-> NoChoice])])
        ELSE Bind(generateAllMoves(b, IF maximizingPlayer THEN color ELSE Other(color)),
                  LAMBDA moves :
                      IF Len(moves) = 0
                      THEN Bind(IF maximizingPlayer THEN -Infinity ELSE Infinity,
                                LAMBDA score :
                                    [score |-> score, move |-> NoChoice,
                                     table |-> tableSet(table, key,
                                                   [score |-> score, move |-> NoChoice])])
                      ELSE Bind(hintLoop([best |-> IF maximizingPlayer THEN -Infinity
                                                   ELSE Infinity,
                                          bestMove |-> NoChoice,
                                          alpha |-> alpha, beta |-> beta,
                                          broken |-> FALSE, table |-> table],
                                         b, moves, 1, Len(moves), depth,
                                         maximizingPlayer, color),
                                LAMBDA done :
                                    [score |-> done.best, move |-> done.bestMove,
                                     table |-> tableSet(done.table, key,
                                                   [score |-> done.best,
                                                    move |-> done.bestMove])])))

\* the place of item i when the scores are put in descending order, items
\* of equal score staying in their order (Array.prototype.sort is stable)
placeOf(scores, i) ==
    1 + Cardinality({j \in 1..Len(scores) :
                        scores[j] > scores[i] \/ (scores[j] = scores[i] /\ j < i)})

\* items.sort((a, b) => scores(b) - scores(a))
sortDescending(items, scores) ==
    [k \in 1..Len(items) |-> items[CHOOSE i \in 1..Len(items) : placeOf(scores, i) = k]]

RECURSIVE topLoop(_, _, _, _, _, _)
\* the for loop of getTopMoves over moves[lo..hi]
topLoop(acc, b, moves, lo, hi, color) ==
    IF lo > hi THEN acc
    ELSE IF lo = hi
    THEN Bind(hintMinimax(acc.table, hintMakeMove(b, moves[lo]), 2, -Infinity, Infinity,
                          FALSE, color),
              LAMBDA evaluation :
                  [table |-> evaluation.table,
                   evaluatedMoves |-> Append(acc.evaluatedMoves,
                                             [from |-> moves[lo].from, to |-> moves[lo].to,
                                              score |-> evaluation.score])])
    ELSE Bind(topLoop(acc, b, moves, lo, (lo + hi) \div 2, color), LAMBDA first :
             topLoop(first, b, moves, (lo + hi) \div 2 + 1, hi, color))

\* getTopMoves(board, color, count) run on the table
getTopMoves(table, b, color, count) ==
    Bind(generateAllMoves(b, color), LAMBDA moves :
    Bind(topLoop([table |-> table, evaluatedMoves |-> <<>>], b, moves, 1, Len(moves), color),
         LAMBDA done :
             Bind(sortDescending(done.evaluatedMoves,
                                 [k \in 1..Len(moves) |-> done.evaluatedMoves[k].score]),
                  LAMBDA sorted :
                      [moves |-> SubSeq(sorted, 1, Min(count, Len(sorted))),
                       searched |-> [k \in 1..Len(moves) |->
                                        [board |-> hintMakeMove(b, moves[k]), depth |-> 2,
                                         maximizingPlayer |-> FALSE, color |-> color,
                                         score |-> done.evaluatedMoves[k].score]],
                       table |-> done.table])))

\* this.maxDepth
maxDepth == 4

\* getBestResponse(board, color, playerMove) run on the table
getBestResponse(table, b, color, playerMove) ==
    Bind(hintMakeMove(b, playerMove), LAMBDA newBoard :
    Bind(hintMinimax(table, newBoard, maxDepth - 1, -Infinity, Infinity, TRUE, Other(color)),
         LAMBDA evaluation :
             [move |-> evaluation.move,
              searched |-> <<[board |-> newBoard, depth |-> maxDepth - 1,
                              maximizingPlayer |-> TRUE, color |-> Other(color),
                              score |-> evaluation.score]>>,
              table |-> evaluation.table]))

-----------------------------------------------------------------------------
(* The hint worker as a state machine: the page posts messages about its   *)
(* board, the worker answers each from the table the earlier ones left.    *)

\* messages posted to the worker
HintCalls == 2

\* the player moves a getBestResponse message may carry: the first ones that
\* generateAllMoves lists
HintPlayerMoves == 2

\* the boards the page asks about
HintPositions == {Stalemate, Stalemated, Promotion}

\* self.onmessage, the message asking for the top moves
hintGetTopMoves(color) ==
    /\ remaining > 0
    /\ remaining' = remaining - 1
    /\ request' = [type |-> "getTopMoves", color |-> color]
    /\ \E done \in {getTopMoves(transpositionTable, board, color, 2)} :
          /\ reply' = [moves |-> done.moves, searched |-> done.searched]
          /\ transpositionTable' = done.table
    /\ result' = "topMoves"
    /\ UNCHANGED <<engineVars, played, aiVars, botVars, gameVars, integrationVars>>

\* self.onmessage, the message asking for the opponent's answer to a move
hintGetBestResponse(color, playerMove) ==
    /\ remaining > 0
    /\ remaining' = remaining - 1
    /\ request' = [type |-> "getBestResponse", color |-> color, playerMove |-> playerMove]
    /\ \E done \in {getBestResponse(transpositionTable, board, color, playerMove)} :
          /\ reply' = [move |-> done.move, searched |-> done.searched]
          /\ transpositionTable' = done.table
    /\ result' = "bestResponse"
    /\ UNCHANGED <<engineVars, played, aiVars, botVars, gameVars, integrationVars>>

\* self.onmessage, the message asking for the evaluation, and one of a type
\* the worker does not know
hintOther(type, color) ==
    /\ remaining > 0
    /\ remaining' = remaining - 1
    /\ request' = [type |-> type, color |-> color]
    /\ IF type = "evaluatePosition"
       THEN /\ reply' = [score |-> evaluateBoard(board, color), searched |-> <<>>]
            /\ result' = "evaluation"
       ELSE /\ reply' = [message |-> "Unknown command type", searched |-> <<>>]
            /\ result' = "error"
    /\ UNCHANGED <<engineVars, played, aiVars, botVars, gameVars, integrationVars,
                   transpositionTable>>

HintGetTopMoves == \E color \in {"white", "black"} : hintGetTopMoves(color)

HintGetBestResponse ==
    /\ remaining > 0
    /\ \E color \in {"white", "black"} :
       \E moves \in {generateAllMoves(board, color)} :
       \E k \in 1..Min(HintPlayerMoves, Len(moves)) :
          hintGetBestResponse(color, moves[k])

HintOther ==
    \E type \in {"evaluatePosition", "hint"} : \E color \in {"white", "black"} :
        hintOther(type, color)

InitHint ==
    \E p \in HintPositions :
       /\ InitEngine(p.board, p.turn,
                     [white |-> LedgerFrom(p.board, "white", 1),
                      black |-> LedgerFrom(p.board, "black", 1)],
                     HintCalls)
       /\ InitSystem(3)
       /\ InitBotFields
       /\ InitGameFields
       /\ InitSearchFields
       /\ InitIntegrationFields

NextHint == HintGetTopMoves \/ HintGetBestResponse \/ HintOther

SpecHint == InitHint /\ [][NextHint]_vars

\* C38: minimax returns for (board, depth, maximizingPlayer, color) the score
\* the same search returns on an empty table, whatever entries the table
\* holds from earlier searches: every search of the full window that the last
\* message started has the score of its run on an empty table.
C38_CacheHitsKeepTheScore ==
    reply # <<>> =>
       \A k \in 1..Len(reply.searched) :
          LET s == reply.searched[k]
          IN  s.score = hintMinimax(EmptyTable, s.board, s.depth, -Infinity, Infinity,
                                    s.maximizingPlayer, s.color).score

-----------------------------------------------------------------------------
(* ChessAI (chess-ai.js): the searches of difficulty 3 to 5.  The game the *)
(* search works on is the engine of part_005; ChessAI.makeMove changes its *)
(* board alone and unmakeMove puts both squares back, so the search is     *)
(* modelled on boards, the engine's lastMove staying what it was.          *)

\* the squares calculatePossibleMoves of part_005 may push for the piece, in
\* the order of its pushes
gameMoveOrder(b, row, col) ==
    LET piece == b[row][col]
        dir == IF piece.color = "white" THEN -1 ELSE 1
    IN  CASE piece.type = "pawn" ->
                << <<row + dir, col>>, <<row + 2 * dir, col>>,
                   <<row + dir, col - 1>>, <<row + dir, col + 1>> >>
          [] piece.type = "rook" ->
                rayTargets(row, col, << <<1, 0>>, <<-1, 0>>, <<0, 1>>, <<0, -1>> >>)
          [] piece.type = "knight" ->
                offsetTargets(row, col, << <<2, 1>>, <<2, -1>>, <<-2, 1>>, <<-2, -1>>,
                                           <<1, 2>>, <<1, -2>>, <<-1, 2>>, <<-1, -2>> >>)
          [] piece.type = "bishop" ->
                rayTargets(row, col, << <<1, 1>>, <<1, -1>>, <<-1, 1>>, <<-1, -1>> >>)
          [] piece.type = "queen" ->
                rayTargets(row, col, << <<1, 0>>, <<-1, 0>>, <<0, 1>>, <<0, -1>>,
                                        <<1, 1>>, <<1, -1>>, <<-1, 1>>, <<-1, -1>> >>)
          [] piece.type = "king" ->
                offsetTargets(row, col, KingOffsetSeq) \o << <<row, 6>>, <<row, 2>> >>
          [] OTHER -> <<>>

\* ChessAI.generateAllLegalMoves as the array it builds
legalMovesInOrder(b, lm, color) ==
    Bind([i \in 1..64 |->
             LET row == SquareAt(i)[1]
                 col == SquareAt(i)[2]
             IN  IF Occupied(b, row, col) /\ b[row][col].color = color
                 THEN Bind(keepIn(gameMoveOrder(b, row, col),
                                  gameCalculatePossibleMoves(b, lm, row, col)),
                           LAMBDA legal :
                               [k \in 1..Len(legal) |->
                                   [from |-> <<row, col>>, to |-> legal[k]]])
                 ELSE <<>>],
         LAMBDA perSquare : Flatten(perSquare, 1, 64))

\* getPositionalBonus for the personality 'balanced':
\* (7 - (|row - 3.5| + |col - 3.5|)) * 3 * multiplier
getPositionalBonus(piece, row, col, color) ==
    (7 - (Abs(2 * row - 7) + Abs(2 * col - 7)) \div 2) * 3
    * (IF piece.color = color THEN 1 ELSE -1)

\* ChessAI.evaluatePosition
chessAIEvaluatePosition(b, lm, color) ==
    Bind([i \in 1..64 |->
             LET row == SquareAt(i)[1]
                 col == SquareAt(i)[2]
                 piece == b[row][col]
             IN  IF ~Occupied(b, row, col) THEN 0
                 ELSE (IF piece.color = color THEN pieceValues[piece.type]
                       ELSE -pieceValues[piece.type])
                      + getPositionalBonus(piece, row, col, color)],
         LAMBDA score :
             SumSeq(score, 1, 64)
             + (Len(legalMovesInOrder(b, lm, color))
                - Len(legalMovesInOrder(b, lm, Other(color)))) * 10
             - (IF gameIsKingInCheck(b, color) THEN 50 ELSE 0)
             + (IF gameIsKingInCheck(b, Other(color)) THEN 50 ELSE 0))

\* ChessAI.makeMove followed by the search and unmakeMove: the board searched
chessAIMakeMove(b, move) ==
    [b EXCEPT ![move.to[1]][move.to[2]] = b[move.from[1]][move.from[2]],
              ![move.from[1]][move.from[2]] = NoPiece]

\* the score of a side to move that has no legal move
noMoveScore(b, color, depth) ==
    IF gameIsKingInCheck(b, color) THEN -99999 + (5 - depth) ELSE 0

RECURSIVE minimaxRecursive(_, _, _, _)
RECURSIVE minimaxRecursiveLoop(_, _, _, _, _, _, _, _)

\* the for loop of minimaxRecursive over moves[lo..hi]
minimaxRecursiveLoop(best, b, lm, color, depth, moves, lo, hi) ==
    IF lo > hi THEN best
    ELSE IF lo = hi
    THEN Bind(-minimaxRecursive(chessAIMakeMove(b, moves[lo]), lm, Other(color), depth - 1),
              LAMBDA score : IF score > best THEN score ELSE best)
    ELSE Bind(minimaxRecursiveLoop(best, b, lm, color, depth, moves, lo, (lo + hi) \div 2),
              LAMBDA first :
                  minimaxRecursiveLoop(first, b, lm, color, depth, moves,
                                       (lo + hi) \div 2 + 1, hi))

minimaxRecursive(b, lm, color, depth) ==
    IF depth = 0 THEN chessAIEvaluatePosition(b, lm, color)
    ELSE Bind(legalMovesInOrder(b, lm, color), LAMBDA moves :
             IF Len(moves) = 0 THEN noMoveScore(b, color, depth)
             ELSE minimaxRecursiveLoop(-Infinity, b, lm, color, depth, moves, 1, Len(moves)))

\* mutant: the child is handed the caller's bounds with their signs changed
\* but not exchanged
childWindow_NotExchanged(alpha, beta) == [alpha |-> -alpha, beta |-> -beta]

\* the window alphabetaRecursive hands to the search below a move
childWindow(alpha, beta) == [alpha |-> -beta, beta |-> -alpha]

RECURSIVE alphabetaRecursive(_, _, _, _, _, _)
RECURSIVE alphabetaRecursiveLoop(_, _, _, _, _, _, _, _, _)

\* one pass through the body of the for loop of alphabetaRecursive; returned
\* says that the pass has left the function with the value beta
alphabetaStep(acc, b, lm, color, depth, beta, move) ==
    Bind(childWindow(acc.alpha, beta), LAMBDA window :
    Bind(alphabetaRecursive(chessAIMakeMove(b, move), lm, Other(color), depth - 1,
                            window.alpha, window.beta),
         LAMBDA child :
             IF -child.score >= beta
             THEN [alpha |-> acc.alpha, returned |-> TRUE,
                   cutoffs |-> acc.cutoffs + child.cutoffs + 1]
             ELSE [alpha |-> IF -child.score > acc.alpha THEN -child.score ELSE acc.alpha,
                   returned |-> FALSE,
                   cutoffs |-> acc.cutoffs + child.cutoffs]))

\* the for loop of alphabetaRecursive over moves[lo..hi]
alphabetaRecursiveLoop(acc, b, lm, color, depth, beta, moves, lo, hi) ==
    IF lo > hi \/ acc.returned THEN acc
    ELSE IF lo = hi THEN alphabetaStep(acc, b, lm, color, depth, beta, moves[lo])
    ELSE Bind(alphabetaRecursiveLoop(acc, b, lm, color, depth, beta, moves,
                                     lo, (lo + hi) \div 2),
              LAMBDA first :
                  alphabetaRecursiveLoop(first, b, lm, color, depth, beta, moves,
                                         (lo + hi) \div 2 + 1, hi))

\* alphabetaRecursive: the score it returns, and the beta cutoffs made in it
\* and below it
alphabetaRecursive(b, lm, color, depth, alpha, beta) ==
    IF depth = 0 THEN [score |-> chessAIEvaluatePosition(b, lm, color), cutoffs |-> 0]
    ELSE Bind(legalMovesInOrder(b, lm, color), LAMBDA moves :
             IF Len(moves) = 0 THEN [score |-> noMoveScore(b, color, depth), cutoffs |-> 0]
             ELSE Bind(alphabetaRecursiveLoop([alpha |-> alpha, returned |-> FALSE,
                                               cutoffs |-> 0],
                                              b, lm, color, depth, beta, moves,
                                              1, Len(moves)),
                       LAMBDA done :
                           [score |-> IF done.returned THEN beta ELSE done.alpha,
                            cutoffs |-> done.cutoffs]))

\* the moves of the best score: bestMoves once the loop of minimax or
\* alphabeta has run over the scored root moves
bestMovesOf(moves, scores) ==
    {moves[k] : k \in {k \in 1..Len(moves) : \A j \in 1..Len(moves) : scores[j] <= scores[k]}}

\* ChessAI.minimax: the score of every root move and the moves it draws from
chessAIMinimax(b, lm, color, depth, moves) ==
    Bind([k \in 1..Len(moves) |->
             -minimaxRecursive(chessAIMakeMove(b, moves[k]), lm, Other(color), depth - 1)],
         LAMBDA scores : [scores |-> scores, bestMoves |-> bestMovesOf(moves, scores),
                          cutoffs |-> 0])

\* ChessAI.alphabeta: the score of every root move and the moves it draws from
chessAIAlphabeta(b, lm, color, depth, moves) ==
    Bind([k \in 1..Len(moves) |->
             alphabetaRecursive(chessAIMakeMove(b, moves[k]), lm, Other(color), depth - 1,
                                -Infinity, Infinity)],
         LAMBDA searched :
             Bind([k \in 1..Len(moves) |-> -searched[k].score], LAMBDA scores :
                 [scores |-> scores, bestMoves |-> bestMovesOf(moves, scores),
                  cutoffs |-> SumSeq([k \in 1..Len(moves) |-> searched[k].cutoffs],
                                     1, Len(moves))]))

-----------------------------------------------------------------------------
(* The two searches of ChessAI applied to small positions: a position, a   *)
(* colour, a depth and a search are drawn, and the search is run.          *)

\* the deepest search asked for
SearchDepth == 3

\* the games the searches are handed
\* White king on wk, pawn a7; Black Ka8.  With the king on c5 this is
\* Stalemate, on b6 Stalemated with the other side to move.
KingAndPawn(wk, t) ==
    [board |-> Place({<< wk, P("king", "white", TRUE) >>,
                      << <<1, 0>>, P("pawn", "white", TRUE) >>,
                      << <<0, 0>>, P("king", "black", TRUE) >>}),
     turn |-> t]

\* the games the searches are handed
SearchPositions ==
    {KingAndPawn(wk, "white") : wk \in {<<3, 2>>, <<2, 1>>, <<1, 2>>, <<0, 2>>, <<2, 2>>}}

\* minimax(game, color, depth, moves) as chooseIntermediate and chooseAdvanced
\* call it, moves being the legal moves of the colour
ChessAIMinimax ==
    /\ request.by = "minimax"
    /\ reply = <<>>
    /\ \E moves \in {legalMovesInOrder(board, lastMove, request.color)} :
       \E done \in {chessAIMinimax(board, lastMove, request.color, request.depth, moves)} :
          reply' = [moves |-> moves, scores |-> done.scores, bestMoves |-> done.bestMoves,
                    cutoffs |-> done.cutoffs]
    /\ result' = "minimax"
    /\ UNCHANGED <<engineVars, played, remaining, aiVars, botVars, gameVars,
                   integrationVars, request, transpositionTable>>

\* alphabeta(game, color, depth, moves) as chooseExpert calls it
ChessAIAlphabeta ==
    /\ request.by = "alphabeta"
    /\ reply = <<>>
    /\ \E moves \in {legalMovesInOrder(board, lastMove, request.color)} :
       \E done \in {chessAIAlphabeta(board, lastMove, request.color, request.depth, moves)} :
          reply' = [moves |-> moves, scores |-> done.scores, bestMoves |-> done.bestMoves,
                    cutoffs |-> done.cutoffs]
    /\ result' = "alphabeta"
    /\ UNCHANGED <<engineVars, played, remaining, aiVars, botVars, gameVars,
                   integrationVars, request, transpositionTable>>

InitSearch ==
    /\ \E p \in SearchPositions : InitGameEngine(p.board, p.turn, 0)
    /\ InitSystem(3)
    /\ InitGameFields
    /\ request \in [by : {"minimax", "alphabeta"}, color : {"white", "black"},
                    depth : 1..SearchDepth]
    /\ reply = <<>>
    /\ transpositionTable = <<>>
    /\ InitIntegrationFields

NextSearch == ChessAIMinimax \/ ChessAIAlphabeta

SpecSearch == InitSearch /\ [][NextSearch]_vars

\* C33: on every position, colour and depth alphabetaRecursive called with
\* the full window returns the score minimaxRecursive returns, and alphabeta
\* and minimax at equal depth give every root move the same score and draw
\* their move from the same set of best-scoring root moves.
C33_AlphabetaEqualsMinimax ==
    reply # <<>> =>
       /\ alphabetaRecursive(board, lastMove, request.color, request.depth,
                             -Infinity, Infinity).score
          = minimaxRecursive(board, lastMove, request.color, request.depth)
       /\ \E other \in {IF request.by = "minimax"
                        THEN chessAIAlphabeta(board, lastMove, request.color,
                                              request.depth, reply.moves)
                        ELSE chessAIMinimax(board, lastMove, request.color,
                                            request.depth, reply.moves)} :
             /\ other.scores = reply.scores
             /\ other.bestMoves = reply.bestMoves

\* alphabeta has made beta cutoffs below the root, and some root move is not
\* among the best
C33_Witness ==
    /\ result = "alphabeta"
    /\ reply.cutoffs > 0
    /\ Cardinality(reply.bestMoves) < Len(reply.moves)
    /\ reply.bestMoves
       = chessAIMinimax(board, lastMove, request.color, request.depth, reply.moves).bestMoves

-----------------------------------------------------------------------------
(* StockfishLikeEngine (README.md): the engine of the search worker.  Its  *)
(* piece values and its pawn, knight, bishop, rook and queen tables are    *)
(* the ones defined above, its kingMiddlegameTable is kingTable.  Boards   *)
(* are handed on as values: unmakeMove puts back what makeMove changed.    *)

kingEndgameTable ==
    << <<-50, -40, -30, -20, -20, -30, -40, -50>>,
       <<-30, -20, -10, 0, 0, -10, -20, -30>>,
       <<-30, -10, 20, 30, 30, 20, -10, -30>>,
       <<-30, -10, 30, 40, 40, 30, -10, -30>>,
       <<-30, -10, 30, 40, 40, 30, -10, -30>>,
       <<-30, -10, 20, 30, 30, 20, -10, -30>>,
       <<-30, -30, 0, 0, 0, 0, -30, -30>>,
       <<-50, -30, -30, -30, -30, -30, -30, -50>> >>

\* [row, col] is among getAttackSquares(board, r, c): a pawn's two diagonal
\* squares, the steps of knight and king, and along the lines of rook,
\* bishop and queen every square up to the first piece, that one included
inAttackSquares(b, r, c, row, col) ==
    LET piece == b[r][c]
        dr == row - r
        dc == col - c
        clear == \A k \in 1..(Max(Abs(dr), Abs(dc)) - 1) :
                     ~Occupied(b, r + k * Sign(dr), c + k * Sign(dc))
        straight == (dr = 0 \/ dc = 0) /\ (dr # 0 \/ dc # 0)
        diagonal == Abs(dr) = Abs(dc) /\ dr # 0
    IN  CASE piece.type = "pawn" ->
                dr = (IF piece.color = "white" THEN -1 ELSE 1) /\ Abs(dc) = 1
          [] piece.type = "knight" -> {Abs(dr), Abs(dc)} = {1, 2}
          [] piece.type = "king" -> Max(Abs(dr), Abs(dc)) = 1
          [] piece.type = "rook" -> straight /\ clear
          [] piece.type = "bishop" -> diagonal /\ clear
          [] piece.type = "queen" -> (straight \/ diagonal) /\ clear
          [] OTHER -> FALSE

squareAttackedBy(b, row, col, attackerColor) ==
    \E s \in Squares :
        /\ b[s[1]][s[2]].color = attackerColor
        /\ inAttackSquares(b, s[1], s[2], row, col)

\* the kings of the colour, as places 1..64 in the order of the loops
kingPlaces(b, color) ==
    {i \in 1..64 : b[SquareAt(i)[1]][SquareAt(i)[2]].type = "king"
                   /\ b[SquareAt(i)[1]][SquareAt(i)[2]].color = color}

\* isKingInCheck: the first king found is the one looked at; false without
sfIsKingInCheck(b, color) ==
    Bind(kingPlaces(b, color), LAMBDA kings :
        IF kings = {} THEN FALSE
        ELSE LET first == CHOOSE i \in kings : \A j \in kings : i <= j
             IN  squareAttackedBy(b, SquareAt(first)[1], SquareAt(first)[2], Other(color)))

\* makeMove: the board with the piece moved
sfMakeMove(b, move) ==
    [b EXCEPT ![move.to[1]][move.to[2]] = b[move.from[1]][move.from[2]],
              ![move.from[1]][move.from[2]] = NoPiece]

isMoveLegal(b, move, color) == ~sfIsKingInCheck(sfMakeMove(b, move), color)

\* calculatePossibleMoves, as the squares pushed in their order; the pawn
\* case reads as generatePawnMoves of the hint worker does
sfCalculatePossibleMoves(b, row, col) ==
    LET piece == b[row][col]
    IN  CASE piece.type = "pawn" -> generatePawnMoves(b, row, col, piece.color)
          [] piece.type = "rook" -> slidingSquares(b, row, col, RookDirSeq, piece.color)
          [] piece.type = "knight" ->
                steppingSquares(b, row, col, KnightOffsetSeq, piece.color)
          [] piece.type = "bishop" -> slidingSquares(b, row, col, BishopDirSeq, piece.color)
          [] piece.type = "queen" -> slidingSquares(b, row, col, KingOffsetSeq, piece.color)
          [] piece.type = "king" -> steppingSquares(b, row, col, KingOffsetSeq, piece.color)
          [] OTHER -> <<>>

sfGenerateAllLegalMoves(b, color) ==
    Bind([i \in 1..64 |->
             LET row == SquareAt(i)[1]
                 col == SquareAt(i)[2]
             IN  IF Occupied(b, row, col) /\ b[row][col].color = color
                 THEN Bind(sfCalculatePossibleMoves(b, row, col), LAMBDA pieceMoves :
                          SelectSeq([k \in 1..Len(pieceMoves) |->
                                        [from |-> <<row, col>>, to |-> pieceMoves[k],
                                         piece |-> b[row][col]]],
                                    LAMBDA move : isMoveLegal(b, move, color)))
                 ELSE <<>>],
         LAMBDA perSquare : Flatten(perSquare, 1, 64))

\* the score the comparison of orderMoves gives a move
orderScore(b, move) ==
    IF Occupied(b, move.to[1], move.to[2])
    THEN pieceValues[b[move.to[1]][move.to[2]].type] - pieceValues[move.piece.type]
    ELSE 0

\* orderMoves: moves.sort((a, b) => scoreB - scoreA)
orderMoves(b, moves) ==
    sortDescending(moves, [k \in 1..Len(moves) |-> orderScore(b, moves[k])])

generateCaptures(b, color) ==
    SelectSeq(sfGenerateAllLegalMoves(b, color),
              LAMBDA move : Occupied(b, move.to[1], move.to[2]))

getPositionalValue(piece, r, c, isEndgame) ==
    LET row == IF piece.color = "white" THEN r ELSE 7 - r
    IN  CASE piece.type = "pawn" -> pawnTable[row + 1][c + 1]
          [] piece.type = "knight" -> knightTable[row + 1][c + 1]
          [] piece.type = "bishop" -> bishopTable[row + 1][c + 1]
          [] piece.type = "rook" -> rookTable[row + 1][c + 1]
          [] piece.type = "queen" -> queenTable[row + 1][c + 1]
          [] piece.type = "king" -> IF isEndgame THEN kingEndgameTable[row + 1][c + 1]
                                    ELSE kingTable[row + 1][c + 1]
          [] OTHER -> 0

sfEvaluateKingSafety(b, kingPos, color) ==
    -20 * Cardinality({s \in Squares :
                          /\ Abs(s[1] - kingPos[1]) <= 1
                          /\ Abs(s[2] - kingPos[2]) <= 1
                          /\ squareAttackedBy(b, s[1], s[2], Other(color))})

sfEvaluatePawnStructure(b, color) ==
    LET pawns == {s \in Squares : b[s[1]][s[2]].type = "pawn" /\ b[s[1]][s[2]].color = color}
        doubled(pawn) == Cardinality({p \in pawns : p[2] = pawn[2] /\ p[1] # pawn[1]})
        hasSupport(pawn) == \E p \in pawns : Abs(p[2] - pawn[2]) = 1
        penalty == [s \in pawns |-> doubled(s) * 10 + (IF hasSupport(s) THEN 0 ELSE 20)]
        places == [i \in 1..64 |-> IF SquareAt(i) \in pawns THEN penalty[SquareAt(i)] ELSE 0]
    IN  -SumSeq(places, 1, 64)

\* evaluate; totalMaterial is what the loop has summed before it comes to the
\* square, and the king position kept is the last one found
evaluate(b, color) ==
    Bind([i \in 1..64 |->
             LET piece == b[SquareAt(i)[1]][SquareAt(i)[2]]
             IN  IF piece.type \in DOMAIN pieceValues THEN pieceValues[piece.type] ELSE 0],
         LAMBDA pieceValue :
    Bind([i \in 1..64 |->
             LET piece == b[SquareAt(i)[1]][SquareAt(i)[2]]
             IN  IF ~Occupied(b, SquareAt(i)[1], SquareAt(i)[2]) THEN 0
                 ELSE Bind(pieceValue[i]
                           + getPositionalValue(piece, SquareAt(i)[1], SquareAt(i)[2],
                                 piece.type = "king"
                                 /\ SumSeq(pieceValue, 1, i - 1) > 2000),
                           LAMBDA value : IF piece.color = color THEN value ELSE -value)],
         LAMBDA score :
             LET myKings == kingPlaces(b, color)
                 oppKings == kingPlaces(b, Other(color))
                 last(kings) == SquareAt(CHOOSE i \in kings : \A j \in kings : j <= i)
             IN  SumSeq(score, 1, 64)
                 + (Len(sfGenerateAllLegalMoves(b, color))
                    - Len(sfGenerateAllLegalMoves(b, Other(color)))) * 10
                 + (IF myKings # {} /\ oppKings # {}
                    THEN sfEvaluateKingSafety(b, last(myKings), color)
                         - sfEvaluateKingSafety(b, last(oppKings), Other(color))
                    ELSE 0)
                 + sfEvaluatePawnStructure(b, color)))

\* what a search has done when it returns: the highest depth counter
\* quiescenceSearch was entered with (-1 when it was not entered), whether
\* quiescenceSearch made a move onto an empty square, and the calls made
NoQuiescence == [deepest |-> -1, quiet |-> FALSE, nodes |-> 1]

capReached_Later(depth) == depth > 7

\* if (depth > 6) return this.evaluate(board, color)
capReached(depth) == depth > 6

RECURSIVE quiescenceSearch(_, _, _, _, _), quiescenceLoop(_, _, _, _, _, _, _, _, _)

quiescenceSearch(b, color, depth, alpha, beta) ==
    IF capReached(depth)
    THEN [score |-> evaluate(b, color), deepest |-> depth, quiet |-> FALSE, nodes |-> 1]
    ELSE Bind(evaluate(b, color), LAMBDA standPat :
             IF standPat >= beta
             THEN [score |-> beta, deepest |-> depth, quiet |-> FALSE, nodes |-> 1]
             ELSE Bind(orderMoves(b, generateCaptures(b, color)), LAMBDA sortedCaptures :
                      quiescenceLoop(b, color, depth, Max(alpha, standPat), beta, standPat,
                                     sortedCaptures, 1,
                                     [deepest |-> depth, quiet |-> FALSE, nodes |-> 1])))

\* the loop over sortedCaptures from the k-th on
quiescenceLoop(b, color, depth, alpha, beta, standPat, sortedCaptures, k, done) ==
    IF k > Len(sortedCaptures) THEN [score |-> alpha] @@ done
    ELSE LET move == sortedCaptures[k]
             captured == b[move.to[1]][move.to[2]]
             captureValue == IF captured.type \in DOMAIN pieceValues
                             THEN pieceValues[captured.type] ELSE 0
         IN  IF standPat + captureValue + 200 < alpha
             THEN quiescenceLoop(b, color, depth, alpha, beta, standPat,
                                 sortedCaptures, k + 1, done)
             ELSE Bind(quiescenceSearch(sfMakeMove(b, move), Other(color), depth + 1,
                                        -beta, -alpha),
                       LAMBDA child :
                  Bind([deepest |-> Max(done.deepest, child.deepest),
                        quiet |-> done.quiet \/ child.quiet
                                  \/ ~Occupied(b, move.to[1], move.to[2]),
                        nodes |-> done.nodes + child.nodes],
                       LAMBDA seen :
                           IF -child.score >= beta THEN [score |-> beta] @@ seen
                           ELSE Bind(Max(alpha, -child.score), LAMBDA raised :
                                    quiescenceLoop(b, color, depth, raised, beta, standPat,
                                                   sortedCaptures, k + 1, seen))))

RECURSIVE search(_, _, _, _, _), searchLoop(_, _, _, _, _, _, _, _)

search(b, color, depth, alpha, beta) ==
    IF depth = 0 THEN quiescenceSearch(b, color, 0, alpha, beta)
    ELSE Bind(sfGenerateAllLegalMoves(b, color), LAMBDA moves :
             IF Len(moves) = 0
             THEN [score |-> IF sfIsKingInCheck(b, color) THEN -9999 + (4 - depth) ELSE 0]
                  @@ NoQuiescence
             ELSE Bind(orderMoves(b, moves), LAMBDA sortedMoves :
                      searchLoop(b, color, depth, alpha, beta, sortedMoves, 1, NoQuiescence)))

\* the loop over sortedMoves from the k-th on
searchLoop(b, color, depth, alpha, beta, sortedMoves, k, done) ==
    IF k > Len(sortedMoves) THEN [score |-> alpha] @@ done
    ELSE Bind(search(sfMakeMove(b, sortedMoves[k]), Other(color), depth - 1, -beta, -alpha),
              LAMBDA child :
         Bind([deepest |-> Max(done.deepest, child.deepest),
               quiet |-> done.quiet \/ child.quiet,
               nodes |-> done.nodes + child.nodes],
              LAMBDA seen :
                  IF -child.score >= beta THEN [score |-> beta] @@ seen
                  ELSE Bind(Max(alpha, -child.score), LAMBDA raised :
                           searchLoop(b, color, depth, raised, beta, sortedMoves, k + 1, seen))))

RECURSIVE calculateBestLoop(_, _, _, _, _, _, _, _)

\* the loop of calculateBestMove over sortedMoves from the k-th on
calculateBestLoop(b, color, depth, sortedMoves, k, bestScore, bestMove, done) ==
    IF k > Len(sortedMoves) THEN [move |-> bestMove] @@ done
    ELSE Bind(search(sfMakeMove(b, sortedMoves[k]), Other(color), depth - 1,
                     -Infinity, Infinity),
              LAMBDA child :
         Bind([deepest |-> Max(done.deepest, child.deepest),
               quiet |-> done.quiet \/ child.quiet,
               nodes |-> done.nodes + child.nodes],
              LAMBDA seen :
                  IF -child.score > bestScore
                  THEN calculateBestLoop(b, color, depth, sortedMoves, k + 1,
                                         -child.score, sortedMoves[k], seen)
                  ELSE calculateBestLoop(b, color, depth, sortedMoves, k + 1,
                                         bestScore, bestMove, seen)))

calculateBestMove(b, color, depth) ==
    Bind(sfGenerateAllLegalMoves(b, color), LAMBDA moves :
        IF Len(moves) = 0 THEN [move |-> NoChoice] @@ NoQuiescence
        ELSE Bind(orderMoves(b, moves), LAMBDA sortedMoves :
                 calculateBestLoop(b, color, depth, sortedMoves, 1, -Infinity, NoChoice,
                                   NoQuiescence)))

\* the depths searched
SfDepth == 2

\* an exchange on d4: the pawn there is taken by the black rooks on the d
\* file and retaken by the white rooks behind it, and last by the king
ExchangeFile ==
    [board |-> Place({<< <<5, 4>>, P("king", "white", TRUE) >>,
                      << <<4, 3>>, P("pawn", "white", TRUE) >>,
                      << <<5, 3>>, P("rook", "white", TRUE) >>,
                      << <<6, 3>>, P("rook", "white", TRUE) >>,
                      << <<7, 3>>, P("rook", "white", TRUE) >>,
                      << <<3, 3>>, P("rook", "black", TRUE) >>,
                      << <<2, 3>>, P("rook", "black", TRUE) >>,
                      << <<1, 3>>, P("rook", "black", TRUE) >>,
                      << <<0, 3>>, P("rook", "black", TRUE) >>,
                      << <<0, 7>>, P("king", "black", TRUE) >>}),
     turn |-> "black"]

\* the messages sent to the worker and the calls made on its engine
SfInputs ==
    {<<p, r>> : p \in SearchPositions,
                r \in [by : {"search"}, color : {"white", "black"}, depth : 0..SfDepth]
                      \cup [by : {"calculateBestMove"}, color : {"white", "black"},
                            depth : 1..SfDepth]}
    \cup {<<p, r>> : p \in SearchPositions \cup BotPositions \cup {ExchangeFile},
                     r \in [by : {"orderMoves"}, color : {"white", "black"}, depth : {0}]}
    \cup {<<ExchangeFile, r>> :
             r \in [by : {"search"}, color : {"white", "black"}, depth : {0}]}

\* orderMoves(board, moves) on the legal moves of a colour, the call
\* calculateBestMove and search make
OrderMoves ==
    /\ request.by = "orderMoves"
    /\ reply = <<>>
    /\ \E moves \in {sfGenerateAllLegalMoves(board, request.color)} :
          reply' = [moves |-> moves, sortedMoves |-> orderMoves(board, moves)]
    /\ result' = "orderMoves"
    /\ UNCHANGED <<engineVars, played, remaining, aiVars, botVars, gameVars,
                   integrationVars, request, transpositionTable>>

\* search(board, color, depth, -Infinity, Infinity), the call calculateBestMove
\* makes after each of its moves
Search ==
    /\ request.by = "search"
    /\ reply = <<>>
    /\ reply' = search(board, request.color, request.depth, -Infinity, Infinity)
    /\ result' = "search"
    /\ UNCHANGED <<engineVars, played, remaining, aiVars, botVars, gameVars,
                   integrationVars, request, transpositionTable>>

\* self.onmessage: the move of calculateBestMove is posted
WorkerOnMessage ==
    /\ request.by = "calculateBestMove"
    /\ reply = <<>>
    /\ reply' = [success |-> TRUE]
                @@ calculateBestMove(board, request.color, request.depth)
    /\ result' = "calculateBestMove"
    /\ UNCHANGED <<engineVars, played, remaining, aiVars, botVars, gameVars,
                   integrationVars, request, transpositionTable>>

InitStockfish ==
    /\ \E input \in SfInputs :
          /\ InitGameEngine(input[1].board, input[1].turn, 0)
          /\ request = input[2]
    /\ InitSystem(3)
    /\ InitGameFields
    /\ reply = <<>>
    /\ transpositionTable = <<>>
    /\ InitIntegrationFields

NextStockfish == OrderMoves \/ Search \/ WorkerOnMessage

SpecStockfish == InitStockfish /\ [][NextStockfish]_vars

isCapture(move) == Occupied(board, move.to[1], move.to[2])

\* C32: orderMoves returns every capturing move before every non-capturing
\* move, and the captures in descending order of the value of the captured
\* piece minus the value of the capturing piece.
C32_CapturesBeforeOthers ==
    result = "orderMoves" =>
       \A i \in 1..Len(reply.sortedMoves) : \A j \in 1..Len(reply.sortedMoves) :
          /\ (isCapture(reply.sortedMoves[i]) /\ ~isCapture(reply.sortedMoves[j])) => i < j
          /\ (isCapture(reply.sortedMoves[i]) /\ isCapture(reply.sortedMoves[j]) /\ i < j)
                => orderScore(board, reply.sortedMoves[i])
                   >= orderScore(board, reply.sortedMoves[j])

====
